---- MODULE Spec2Model ----
(***************************************************************************)
(* A model of the gosoap SOAP engine: the envelope and fault decoders      *)
(* (envelope.go, fault.go), the XOP decoder over MIME parts and the        *)
(* reflection-based include path resolver (xop.go), canonicalization       *)
(* (canonicalize.go), WS-Security signing (wsse.go, request.go) and the    *)
(* Response (response.go).                                                 *)
(*                                                                         *)
(* Go strings that the code takes apart (struct tags, href values,        *)
(* Content-ID headers) are sequences of atoms, so that splitting,          *)
(* replacing and bracketing are computed and not assumed.                  *)
(***************************************************************************)
EXTENDS Integers, Sequences, FiniteSets, TLC

VARIABLES
    pc,               \* position of the running operation
    body,             \* the Envelope's Body: [Content, Fault]
    tokens,           \* what the xml.Decoder still has to deliver inside Body
    err,              \* the error value the operation returned ("nil" for none)
    target,           \* the destination the last child element was decoded into
    parts,            \* the MIME parts the multipart reader still has to deliver
    parsedXOPHeader,  \* xopDecoder.decode: local parsedXOPHeader
    partNumber,       \* xopDecoder.decode: local partNumber
    includes,         \* xopDecoder.includes: a function from Content-ID keys to paths
    bodiesRead,       \* the numbers of the parts whose body decode has read
    xopDecoded,       \* the numbers of the parts decoded into the envelope
    input,            \* the immutable input of the run (kept for the properties)
    canonical,        \* the outputs of the calls of canonicalize, in order
    envelope,         \* the Envelope a Request builds and signs
    sent,             \* the bytes Request.serialize returned
    respFault,        \* Response.fault, what Fault() returns
    pipeWriter        \* the writing end of the pipe of the XOP decoder

vars == <<pc, body, tokens, err, target, parts, parsedXOPHeader, partNumber,
          includes, bodiesRead, xopDecoded, input, canonical, envelope, sent,
          respFault, pipeWriter>>

\* the state of the signing side, which the decoders leave alone
signVars == <<envelope, sent>>
\* the state of a Response and of the pipe inside xopDecoder.decode
respVars == <<respFault, pipeWriter>>
auxVars == <<canonical, signVars, respVars>>
AuxInit ==
    /\ canonical = <<>> /\ envelope = [k |-> "nil"] /\ sent = [k |-> "nil"]
    /\ respFault = [k |-> "nil"] /\ pipeWriter = "none"

(***************************************************************************)
(* Bounds of the model.                                                    *)
(***************************************************************************)
MaxChildren == 2    \* child tokens of Body in a decoded document
MaxParts == 3       \* MIME parts of a multipart message
MaxPath == 3        \* segments of a path handed to the resolver directly

(***************************************************************************)
(* Program constants and error values.                                     *)
(***************************************************************************)
soapEnvNS == "http://schemas.xmlsoap.org/soap/envelope/"
xopNS == "http://www.w3.org/2004/08/xop/include"
xmlName == "XMLName"

NoErr == "nil"
ErrEnvelopeMisconfigured == "ErrEnvelopeMisconfigured"
ErrFaultDetailPresentButNotSpecified == "ErrFaultDetailPresentButNotSpecified"
ErrMultipartBodyEmpty == "ErrMultipartBodyEmpty"
ErrCannotSetBytesElement == "ErrCannotSetBytesElement"
ErrMissingXOPPart == "ErrMissingXOPPart"
errFieldNotFound == "errFieldNotFound"
errFieldNotArray == "errFieldNotArray"
\* fmt.Errorf("invalid Include path (should start with Body): %v", path)
ErrIncludePathNotBody == "invalid Include path (should start with Body)"
\* fmt.Errorf("invalid XML object path, expected %s, got %s", rootName, path[1])
ErrInvalidObjectPath == "invalid XML object path"
\* errors of the libraries the code calls
SyntaxError == "xml.SyntaxError"
ErrNonPointer == "non-pointer passed to Unmarshal"
ErrNilPointer == "nil pointer passed to Unmarshal"
ErrReader == "multipart: NextPart error"
Panic == "panic"

(***************************************************************************)
(* Go values as reflect sees them.  A value is a record with its kind k.   *)
(***************************************************************************)
Nil == [k |-> "nil"]
Struct(tn, fs) == [k |-> "struct", tname |-> tn, fields |-> fs]
Ptr(v) == [k |-> "ptr", isnil |-> FALSE, elem |-> v]
NilPtr == [k |-> "ptr", isnil |-> TRUE]
Str(s) == [k |-> "string", s |-> s]
IntV(n) == [k |-> "int", n |-> n]
Byte(b) == [k |-> "uint8", b |-> b]
Slice(ek, c, items) == [k |-> "slice", elemk |-> ek, cap |-> c, items |-> items]
Bytes(c, bs) == Slice("uint8", c, [i \in 1..Len(bs) |-> Byte(bs[i])])
\* a struct field: its Go name, its xml tag (atoms), embedded or not, exported or not
Field(n, tag, anon, exp, v) == [name |-> n, tag |-> tag, anon |-> anon, exp |-> exp, v |-> v]
XMLNameField(tag) == Field(xmlName, tag, FALSE, TRUE, Struct("Name", <<>>))

\* a reflect.Value that was reached from the Content pointer: the selectors
\* leading to it, whether it may be set, and the value itself
Ref(sel, canSet, v) == [ok |-> TRUE, sel |-> sel, canSet |-> canSet, v |-> v]
\* the outcome of a reflect call that panicked
Panicked == [ok |-> FALSE]

RECURSIVE SetAt(_, _, _)
\* the object graph root with the value at selector path sel replaced by nv
SetAt(root, sel, nv) ==
    IF sel = <<>> THEN nv
    ELSE LET s == Head(sel) IN
         IF s.t = "elem"
           THEN [root EXCEPT !.elem = SetAt(root.elem, Tail(sel), nv)]
         ELSE IF s.t = "index"
           THEN [root EXCEPT !.items[s.i] = SetAt(root.items[s.i], Tail(sel), nv)]
         ELSE [root EXCEPT !.fields[s.i].v = SetAt(root.fields[s.i].v, Tail(sel), nv)]

RECURSIVE GetAt(_, _)
GetAt(root, sel) ==
    IF sel = <<>> THEN root
    ELSE LET s == Head(sel) IN
         IF s.t = "elem" THEN GetAt(root.elem, Tail(sel))
         ELSE IF s.t = "index" THEN GetAt(root.items[s.i], Tail(sel))
         ELSE GetAt(root.fields[s.i].v, Tail(sel))

(***************************************************************************)
(* Strings taken apart by the code.                                        *)
(***************************************************************************)
\* strings.Split(s, sep): the pieces of the atom sequence s between separators
RECURSIVE Split(_, _)
Split(s, sep) ==
    IF \A i \in 1..Len(s) : s[i] /= sep THEN <<s>>
    ELSE LET i == CHOOSE j \in 1..Len(s) : s[j] = sep /\ \A m \in 1..(j-1) : s[m] /= sep
         IN <<SubSeq(s, 1, i-1)>> \o Split(SubSeq(s, i+1, Len(s)), sep)

\* an atom sequence of at most one atom read back as a Go string
AsString(s) == IF s = <<>> THEN "" ELSE s[1]

\* strings.Replace(s, old, "", 1): the first occurrence of the atom removed
ReplaceFirst(s, old) ==
    IF \A i \in 1..Len(s) : s[i] /= old THEN s
    ELSE LET i == CHOOSE j \in 1..Len(s) : s[j] = old /\ \A m \in 1..(j-1) : s[m] /= old
         IN SubSeq(s, 1, i-1) \o SubSeq(s, i+1, Len(s))

getNameFromTag(tag) ==
    IF tag = <<>> THEN ""
    ELSE LET parts1 == Split(tag, " ")
             last == parts1[Len(parts1)]
         IN AsString(Split(last, ",")[1])

getExplicitXMLName(val) ==
    IF val.k = "struct"
      THEN IF \E i \in 1..Len(val.fields) : val.fields[i].name = xmlName
             THEN LET i == CHOOSE j \in 1..Len(val.fields) :
                              /\ val.fields[j].name = xmlName
                              /\ \A m \in 1..(j-1) : val.fields[m].name /= xmlName
                  IN getNameFromTag(val.fields[i].tag)
             ELSE ""
      ELSE ""

RECURSIVE unwrapValue(_)
\* a Ref, or Panicked where reflect panics: Type() of the zero Value that Elem()
\* gives for a nil pointer, Index(0) of a slice with capacity and no element
unwrapValue(r) ==
    IF r.v.k = "ptr"
      THEN IF r.v.isnil THEN Panicked
           ELSE unwrapValue(Ref(Append(r.sel, [t |-> "elem"]), r.canSet, r.v.elem))
    ELSE IF r.v.k = "slice"
      THEN IF r.v.cap = 0 THEN r
           ELSE IF Len(r.v.items) = 0 THEN Panicked
           ELSE unwrapValue(Ref(Append(r.sel, [t |-> "index", i |-> 1]), r.canSet, r.v.items[1]))
    ELSE r

\* the result of getFieldFromIncludePath: a field and a nil error, or an error
Found(r) == [err |-> NoErr, field |-> r]
Failed(e) == [err |-> e, field |-> Panicked]

\* the Go name of a value's type, reflect's Type().Name()
TypeName(v) == IF v.k = "struct" THEN v.tname ELSE v.k

\* xop.go:100-103: the outer rootName after the if statement.  The statement
\* "if rootName := getExplicitXMLName(root); rootName == \"\"" declares a second
\* rootName scoped to the if; the assignment in its block goes to that one.
rootNameAfterIf(root) ==
    LET outer == ""
        explicit == getExplicitXMLName(root)
        scoped == IF explicit = "" THEN TypeName(root) ELSE explicit
    IN outer

\* the field's XML name: its tag, else the XMLName tag of its value, else its Go name
fieldNameOf(f, u) ==
    IF getNameFromTag(f.tag) /= "" THEN getNameFromTag(f.tag)
    ELSE IF getExplicitXMLName(u.v) /= "" THEN getExplicitXMLName(u.v)
    ELSE f.name

RECURSIVE searchElems(_, _, _)
RECURSIVE searchFields(_, _, _, _, _)
\* the "for len(elems) > 0" loop; i is the 0-based index of the next path node
searchElems(elems, i, path) ==
    IF elems = <<>> THEN Failed(errFieldNotFound)
    ELSE IF Head(elems).v.k /= "struct" THEN Failed(Panic)   \* elem.NumField()
    ELSE searchFields(Head(elems), 1, Tail(elems), i, path)

RECURSIVE searchFields_EmbeddedFirst(_, _, _, _, _)
\* a "for j" loop that searches the members of an embedded field at once,
\* before the fields declared after it
searchFields_EmbeddedFirst(elem, j, elems, i, path) ==
    IF j > Len(elem.v.fields) THEN searchElems(elems, i, path)
    ELSE
      LET f == elem.v.fields[j]
          u == unwrapValue(Ref(Append(elem.sel, [t |-> "field", i |-> j]),
                               elem.canSet /\ f.exp, f.v))
      IN
      IF f.name = xmlName THEN searchFields_EmbeddedFirst(elem, j + 1, elems, i, path)
      ELSE IF f.tag = <<"-">> THEN searchFields_EmbeddedFirst(elem, j + 1, elems, i, path)
      ELSE IF ~u.ok THEN Failed(Panic)
      ELSE IF u.v.k = "slice"
        THEN IF i >= Len(path) THEN Failed(Panic)
             ELSE IF getNameFromTag(f.tag) = path[i + 1]
               THEN IF i + 1 = Len(path) THEN Found(u)
                    ELSE Failed(errFieldNotFound)
             ELSE searchFields_EmbeddedFirst(elem, j + 1, elems, i, path)
      ELSE IF f.anon
        THEN LET r == searchFields_EmbeddedFirst(u, 1, <<>>, i, path)
             IN IF r.err = NoErr THEN r
                ELSE searchFields_EmbeddedFirst(elem, j + 1, elems, i, path)
      ELSE IF i >= Len(path) THEN Failed(Panic)
      ELSE IF fieldNameOf(f, u) = path[i + 1]
        THEN IF i + 1 = Len(path) THEN Found(u)
             ELSE searchElems(<<u>>, i + 1, path)
      ELSE searchFields_EmbeddedFirst(elem, j + 1, elems, i, path)

\* the "for j" loop over the fields of elem, from field j on
searchFields(elem, j, elems, i, path) ==
    IF j > Len(elem.v.fields) THEN searchElems(elems, i, path)
    ELSE
      LET f == elem.v.fields[j]
          u == unwrapValue(Ref(Append(elem.sel, [t |-> "field", i |-> j]),
                               elem.canSet /\ f.exp, f.v))
      IN
      IF f.name = xmlName THEN searchFields(elem, j + 1, elems, i, path)
      ELSE IF f.tag = <<"-">> THEN searchFields(elem, j + 1, elems, i, path)
      ELSE IF ~u.ok THEN Failed(Panic)
      ELSE IF u.v.k = "slice"
        THEN IF i >= Len(path) THEN Failed(Panic)            \* path[i]
             ELSE IF getNameFromTag(f.tag) = path[i + 1]
               THEN IF i + 1 = Len(path) THEN Found(u)
                    ELSE Failed(errFieldNotFound)
             ELSE searchFields(elem, j + 1, elems, i, path)
      ELSE IF f.anon
        THEN searchFields(elem, j + 1, Append(elems, u), i, path)
      ELSE IF i >= Len(path) THEN Failed(Panic)              \* path[i]
      ELSE IF fieldNameOf(f, u) = path[i + 1]
        THEN IF i + 1 = Len(path) THEN Found(u)
             ELSE searchElems(<<u>>, i + 1, path)
      ELSE searchFields(elem, j + 1, elems, i, path)

\* val is reflect.ValueOf(Body.Content)
getFieldFromIncludePath(val, path) ==
    IF Len(path) = 0 THEN Failed(Panic)                      \* path[0]
    ELSE IF path[1] /= "Body" THEN Failed(ErrIncludePathNotBody)
    ELSE IF val.k /= "ptr" THEN Failed(Panic)                \* Elem() of the zero Value
    ELSE IF val.isnil THEN Failed(Panic)                     \* Type() of the zero Value
    ELSE
      LET root == Ref(<<[t |-> "elem"]>>, TRUE, val.elem)
          rootName == rootNameAfterIf(root.v)
      IN
      IF Len(path) < 2 THEN Failed(Panic)                    \* path[1]
      ELSE IF rootName /= path[2] THEN Failed(ErrInvalidObjectPath)
      ELSE searchElems(<<root>>, 2, path)

(***************************************************************************)
(* Faults (fault.go, held in src/request.go from line 106 on).             *)
(***************************************************************************)
\* a *Fault is Nil or this record; DetailInternal is Nil or a faultDetail
FaultOf(code, str, actor, detail) ==
    [k |-> "Fault", Code |-> code, String |-> str, Actor |-> actor, DetailInternal |-> detail]
faultDetailOf(content) == [k |-> "faultDetail", Content |-> content]

NewFault == FaultOf("", "", "", Nil)
NewFaultWithDetail(detail) == FaultOf("", "", "", faultDetailOf(detail))

Detail(f) == IF f.DetailInternal = Nil THEN Nil ELSE f.DetailInternal.Content

\* fmt.Sprintf("soap fault: %s (%s)", f.Code, f.String), as atoms
Error(f) == <<"soap fault: ", f.Code, " (", f.String, ")">>

\* Decoder.DecodeElement(v, &elem) for a caller-supplied destination v: the
\* destination is Nil (an untyped nil interface), a nil pointer, or a pointer
\* whose pointee the decoder fills from the element.  nilOut is what the build's
\* encoding/xml does with a nil pointer: an error, or a panic in unmarshal.
DecodeElement(v, elem, nilOut) ==
    IF v = Nil THEN [v |-> v, err |-> ErrNonPointer]
    ELSE IF v.isnil THEN [v |-> v, err |-> nilOut]
    ELSE [v |-> Ptr(elem.decoded), err |-> IF elem.ok THEN NoErr ELSE SyntaxError]

RECURSIVE faultDetailLoop(_, _, _)
\* the for loop of faultDetail.UnmarshalXML over the tokens inside <detail>
faultDetailLoop(f, toks, nilOut) ==
    IF toks = <<>> THEN [v |-> f, err |-> "EOF"]
    ELSE
      LET tok == Head(toks) IN
      IF tok.t = "error" THEN [v |-> f, err |-> SyntaxError]
      ELSE IF tok.t = "start"
        THEN LET r == DecodeElement(f.Content, tok, nilOut)
                 f2 == [f EXCEPT !.Content = r.v]
             IN IF r.err /= NoErr THEN [v |-> f2, err |-> r.err]
                ELSE faultDetailLoop(f2, Tail(toks), nilOut)
      ELSE IF tok.t = "end" THEN [v |-> f, err |-> NoErr]
      ELSE faultDetailLoop(f, Tail(toks), nilOut)

\* faultDetail.UnmarshalXML without its check of f.Content
faultDetailUnmarshalXML_NoCheck(f, toks, nilOut) == faultDetailLoop(f, toks, nilOut)

faultDetailUnmarshalXML(f, toks, nilOut) ==
    IF f.Content = Nil THEN [v |-> f, err |-> ErrFaultDetailPresentButNotSpecified]
    ELSE faultDetailLoop(f, toks, nilOut)

RECURSIVE FaultFields(_, _, _)
\* encoding/xml filling the Fault struct from the children of the Fault
\* element, by the xml tags of the struct's fields
FaultFields(f, children, nilOut) ==
    IF children = <<>> THEN [v |-> f, err |-> NoErr]
    ELSE
      LET c == Head(children) IN
      IF c.n = "error" THEN [v |-> f, err |-> SyntaxError]
      ELSE IF c.n = "faultcode"
        THEN FaultFields([f EXCEPT !.Code = c.text], Tail(children), nilOut)
      ELSE IF c.n = "faultstring"
        THEN FaultFields([f EXCEPT !.String = c.text], Tail(children), nilOut)
      ELSE IF c.n = "faultactor"
        THEN FaultFields([f EXCEPT !.Actor = c.text], Tail(children), nilOut)
      ELSE IF c.n = "detail"
        THEN LET d == IF f.DetailInternal = Nil THEN faultDetailOf(Nil)
                      ELSE f.DetailInternal
                 r == faultDetailUnmarshalXML(d, c.tokens, nilOut)
                 f2 == [f EXCEPT !.DetailInternal = r.v]
             IN IF r.err /= NoErr THEN [v |-> f2, err |-> r.err]
                ELSE FaultFields(f2, Tail(children), nilOut)
      ELSE FaultFields(f, Tail(children), nilOut)

\* Decoder.DecodeElement(b.Fault, &elem)
DecodeFault(f, elem, nilOut) ==
    IF f = Nil THEN [v |-> f, err |-> nilOut]
    ELSE FaultFields(f, elem.children, nilOut)

(***************************************************************************)
(* Envelopes (envelope.go).                                                *)
(***************************************************************************)
BodyOf(content, fault) == [Content |-> content, Fault |-> fault]

NewEnvelope(content) == BodyOf(content, Nil)
NewEnvelopeWithFault(content, faultDetail) == BodyOf(content, NewFaultWithDetail(faultDetail))

\* Body.UnmarshalXML setting the default fault before it checks Content
BodyEnter_FaultFirst(b) ==
    LET b2 == IF b.Fault = Nil THEN [b EXCEPT !.Fault = NewFault] ELSE b IN
    IF b.Content = Nil
      THEN [b |-> b2, err |-> ErrEnvelopeMisconfigured, done |-> TRUE]
    ELSE [b |-> b2, err |-> NoErr, done |-> FALSE]

\* Body.UnmarshalXML, lines 120-127: the checks before the loop
BodyEnter(b) ==
    IF b.Content = Nil
      THEN [b |-> b, err |-> ErrEnvelopeMisconfigured, done |-> TRUE]
    ELSE IF b.Fault = Nil
      THEN [b |-> [b EXCEPT !.Fault = NewFault], err |-> NoErr, done |-> FALSE]
    ELSE [b |-> b, err |-> NoErr, done |-> FALSE]

\* the loop of Body.UnmarshalXML taking any element named Fault for a fault
BodyToken_LocalNameOnly(b, tok, nilOut) ==
    IF tok.t = "error"
      THEN [b |-> b, err |-> SyntaxError, done |-> TRUE, target |-> "none"]
    ELSE IF tok.t = "start"
      THEN IF tok.local = "Fault"
             THEN LET r == DecodeFault(b.Fault, tok, nilOut) IN
                  IF r.err /= NoErr
                    THEN [b |-> [b EXCEPT !.Fault = r.v], err |-> r.err,
                          done |-> TRUE, target |-> "Fault"]
                    ELSE [b |-> BodyOf(Nil, r.v), err |-> NoErr,
                          done |-> FALSE, target |-> "Fault"]
             ELSE LET r == DecodeElement(b.Content, tok, nilOut) IN
                  IF r.err /= NoErr
                    THEN [b |-> [b EXCEPT !.Content = r.v], err |-> r.err,
                          done |-> TRUE, target |-> "Content"]
                    ELSE [b |-> BodyOf(r.v, Nil), err |-> NoErr,
                          done |-> FALSE, target |-> "Content"]
    ELSE IF tok.t = "end"
      THEN [b |-> b, err |-> NoErr, done |-> TRUE, target |-> "none"]
    ELSE [b |-> b, err |-> NoErr, done |-> FALSE, target |-> "none"]

\* Body.UnmarshalXML, lines 130-158: one iteration of the loop on token tok
BodyToken(b, tok, nilOut) ==
    IF tok.t = "error"
      THEN [b |-> b, err |-> SyntaxError, done |-> TRUE, target |-> "none"]
    ELSE IF tok.t = "start"
      THEN IF tok.space = soapEnvNS /\ tok.local = "Fault"
             THEN LET r == DecodeFault(b.Fault, tok, nilOut) IN
                  IF r.err /= NoErr
                    THEN [b |-> [b EXCEPT !.Fault = r.v], err |-> r.err,
                          done |-> TRUE, target |-> "Fault"]
                    ELSE [b |-> BodyOf(Nil, r.v), err |-> NoErr,
                          done |-> FALSE, target |-> "Fault"]
             ELSE LET r == DecodeElement(b.Content, tok, nilOut) IN
                  IF r.err /= NoErr
                    THEN [b |-> [b EXCEPT !.Content = r.v], err |-> r.err,
                          done |-> TRUE, target |-> "Content"]
                    ELSE [b |-> BodyOf(r.v, Nil), err |-> NoErr,
                          done |-> FALSE, target |-> "Content"]
    ELSE IF tok.t = "end"
      THEN [b |-> b, err |-> NoErr, done |-> TRUE, target |-> "none"]
    ELSE [b |-> b, err |-> NoErr, done |-> FALSE, target |-> "none"]

RECURSIVE BodyLoop(_, _, _)
\* the loop of Body.UnmarshalXML run to its return
BodyLoop(b, toks, nilOut) ==
    IF toks = <<>> THEN [b |-> b, err |-> "EOF"]
    ELSE LET r == BodyToken(b, Head(toks), nilOut) IN
         IF r.done THEN [b |-> r.b, err |-> r.err]
         ELSE BodyLoop(r.b, Tail(toks), nilOut)

\* Body.UnmarshalXML as a whole
BodyUnmarshalXML(b, toks, nilOut) ==
    LET e == BodyEnter(b) IN
    IF e.done THEN [b |-> e.b, err |-> e.err]
    ELSE BodyLoop(e.b, toks, nilOut)

(***************************************************************************)
(* Destinations and documents of the envelope decoder.                     *)
(***************************************************************************)
\* envelope_test.go: envelopeContentExample holding attr1 = n
ContentExample(n) ==
    Struct("envelopeContentExample",
           <<XMLNameField(<<"ContentExample">>),
             Field("Attr1", <<"attr1", ",", "attr">>, FALSE, TRUE, IntV(n)),
             Field("Field1", <<"ContentField">>, FALSE, TRUE,
                   Struct("envelopeExampleField",
                          <<XMLNameField(<<"ContentField">>),
                            Field("Value", <<",", "chardata">>, FALSE, TRUE, Str(""))>>))>>)

\* fault_test.go: faultDetailExample holding attr1 = n
DetailExample(n) ==
    Struct("faultDetailExample",
           <<XMLNameField(<<"DetailExample">>),
             Field("Attr1", <<"attr1", ",", "attr">>, FALSE, TRUE, IntV(n))>>)

CharData == [t |-> "chardata"]
EndElement == [t |-> "end"]
TokenError == [t |-> "error"]
\* a start element with what encoding/xml makes of the element it opens: ok and
\* the decoded destination for a payload, the children for a Fault
StartElement(space, local, ok, decoded, children) ==
    [t |-> "start", space |-> space, local |-> local, ok |-> ok,
     decoded |-> decoded, children |-> children]

DetailElements ==
    { <<EndElement>>,
      <<StartElement("", "DetailExample", TRUE, DetailExample(10), <<>>), EndElement>> }

FaultText ==
    << [n |-> "faultcode", text |-> "FaultCodeValue"],
       [n |-> "faultstring", text |-> "FaultStringValue"],
       [n |-> "faultactor", text |-> "FaultActorValue"] >>

\* the children of a Fault element: with or without a detail element, the
\* detail empty or not, or not well formed after the fault code
FaultChildren ==
    { FaultText, <<FaultText[1], [n |-> "error"]>> }
    \cup { Append(FaultText, [n |-> "detail", tokens |-> d]) : d \in DetailElements }

BodyChildren ==
    { CharData,
      StartElement("", "ContentExample", TRUE, ContentExample(10), <<>>),
      StartElement("", "ContentExample", FALSE, ContentExample(10), <<>>),
      StartElement("urn:other", "Fault", TRUE, ContentExample(11), <<>>) }
    \cup { StartElement(soapEnvNS, "Fault", TRUE, Nil, c) : c \in FaultChildren }

RECURSIVE SeqsUpTo(_, _)
\* the sequences over S of length at most n
SeqsUpTo(S, n) ==
    IF n = 0 THEN { <<>> }
    ELSE LET shorter == SeqsUpTo(S, n - 1)
         IN shorter \cup { Append(q, x) : q \in shorter, x \in S }

\* what the decoder delivers inside Body: children, then Body's end element,
\* or a syntax error where the document is not well formed
BodyDocuments ==
    { Append(q, last) : q \in SeqsUpTo(BodyChildren, MaxChildren),
                        last \in {EndElement, TokenError} }

ContentDestinations == { Nil, Ptr(ContentExample(0)) }
DetailDestinations == { Nil, Ptr(DetailExample(0)) }

Envelopes ==
    { NewEnvelope(c) : c \in ContentDestinations }
    \cup { NewEnvelopeWithFault(c, d) : c \in ContentDestinations, d \in DetailDestinations }

NilPointerOutcomes == { ErrNilPointer, Panic }

NoIncludes == [key \in {} |-> <<>>]

(***************************************************************************)
(* Decoding an Envelope with encoding/xml: Decoder.Decode reaches the Body *)
(* element, calls Body.UnmarshalXML and returns its error unchanged.       *)
(***************************************************************************)
InitEnvelope ==
    /\ AuxInit
    /\ body \in Envelopes
    /\ tokens \in BodyDocuments
    /\ pc = "body"
    /\ err = NoErr
    /\ target = "none"
    /\ parts = <<>>
    /\ parsedXOPHeader = FALSE
    /\ partNumber = 0
    /\ includes = NoIncludes
    /\ bodiesRead = {}
    /\ xopDecoded = {}
    /\ input = [body |-> body, tokens |-> tokens, parts |-> <<>>, path |-> <<>>]

xopVars == <<parts, parsedXOPHeader, partNumber, includes, bodiesRead, xopDecoded>>

\* Body.UnmarshalXML up to its loop
UnmarshalBodyEnter ==
    /\ pc = "body"
    /\ LET e == BodyEnter(body) IN
       /\ body' = e.b
       /\ err' = e.err
       /\ pc' = IF e.done THEN "done" ELSE "tokens"
    /\ UNCHANGED <<tokens, target, input, auxVars, xopVars>>

\* one iteration of the loop of Body.UnmarshalXML
UnmarshalBodyToken ==
    /\ pc = "tokens"
    /\ tokens /= <<>>
    /\ \E nilOut \in NilPointerOutcomes :
         LET r == BodyToken(body, Head(tokens), nilOut) IN
         /\ body' = r.b
         /\ err' = r.err
         /\ target' = IF r.target = "none" THEN target ELSE r.target
         /\ pc' = IF r.done THEN "done" ELSE "tokens"
    /\ tokens' = Tail(tokens)
    /\ UNCHANGED <<input, auxVars, xopVars>>

NextEnvelope == UnmarshalBodyEnter \/ UnmarshalBodyToken

SpecEnvelope == InitEnvelope /\ [][NextEnvelope]_vars

(***************************************************************************)
(* The XOP decoder (xop.go): the parsed xop+xml part is an etree tree.     *)
(* An etree element keeps its prefix in Space and its local name in Tag;   *)
(* an attribute xmlns="u" has Key "xmlns", an attribute xmlns:p="u" has    *)
(* Space "xmlns" and Key "p".                                              *)
(***************************************************************************)
Attr(space, key, value) == [space |-> space, key |-> key, value |-> value]
\* dec is what encoding/xml makes of the element when it is a child of Body
Element(space, tag, attr, child, dec) ==
    [t |-> "element", space |-> space, tag |-> tag, attr |-> attr, child |-> child, dec |-> dec]
Dec(ok, decoded, children) == [ok |-> ok, decoded |-> decoded, children |-> children]
NoDec == Dec(TRUE, Nil, <<>>)

RECURSIVE attrLoop(_, _, _)
\* lines 57-66: ns and href after the loop over token.Attr
attrLoop(attrs, ns, href) ==
    IF attrs = <<>> THEN [ns |-> ns, href |-> href]
    ELSE LET a == Head(attrs) IN
         IF a.key = "xmlns" THEN attrLoop(Tail(attrs), a.value, href)
         ELSE IF a.key = "href" THEN attrLoop(Tail(attrs), ns, a.value)
         ELSE attrLoop(Tail(attrs), ns, href)

\* d.includes[key] = path
PutInclude(incl, key, path) ==
    [x \in (DOMAIN incl) \cup {key} |-> IF x = key THEN path ELSE incl[x]]

RECURSIVE includeLoop(_, _, _)
\* the loop of getXopContentIDIncludePath over element.Child
includeLoop(incl, children, path) ==
    IF children = <<>> THEN incl
    ELSE
      LET token == Head(children) IN
      IF token.t /= "element" THEN includeLoop(incl, Tail(children), path)
      ELSE
        LET a == attrLoop(token.attr, token.space, <<>>) IN
        IF a.ns = xopNS /\ token.tag = "Include"
          THEN LET cleanedHref == ReplaceFirst(a.href, "cid:")
               IN includeLoop(PutInclude(incl, <<"<">> \o cleanedHref \o <<">">>, path),
                              Tail(children), path)
          ELSE includeLoop(includeLoop(incl, token.child, Append(path, token.tag)),
                           Tail(children), path)

getXopContentIDIncludePath(incl, element, path) == includeLoop(incl, element.child, path)

(***************************************************************************)
(* encoding/xml decoding the re-serialized tree into the Envelope.         *)
(***************************************************************************)
RECURSIVE NamespaceURI(_, _)
\* the namespace a prefix ("" for none) is bound to; scope holds the attribute
\* lists of the element's ancestors and of the element, innermost last
NamespaceURI(prefix, scope) ==
    IF scope = <<>> THEN ""
    ELSE
      LET attrs == scope[Len(scope)]
          decls == { i \in 1..Len(attrs) :
                       IF prefix = "" THEN attrs[i].space = "" /\ attrs[i].key = "xmlns"
                       ELSE attrs[i].space = "xmlns" /\ attrs[i].key = prefix }
      IN IF decls /= {} THEN attrs[CHOOSE i \in decls : TRUE].value
         ELSE NamespaceURI(prefix, SubSeq(scope, 1, Len(scope) - 1))

\* the tokens the xml.Decoder delivers inside a Body element
BodyTokens(bodyElem, scope) ==
    [i \in 1..(Len(bodyElem.child) + 1) |->
        IF i > Len(bodyElem.child) THEN EndElement
        ELSE LET c == bodyElem.child[i] IN
             IF c.t = "element"
               THEN StartElement(NamespaceURI(c.space, Append(scope, c.attr)), c.tag,
                                 c.dec.ok, c.dec.decoded, c.dec.children)
               ELSE CharData]

RECURSIVE EnvelopeChildren(_, _, _, _)
\* the children of the Envelope element: a Body element goes to
\* Body.UnmarshalXML, whose error is returned as it is
EnvelopeChildren(b, children, scope, nilOut) ==
    IF children = <<>> THEN [b |-> b, err |-> NoErr]
    ELSE
      LET c == Head(children) IN
      IF c.t = "element" /\ c.tag = "Body"
         /\ NamespaceURI(c.space, Append(scope, c.attr)) = soapEnvNS
        THEN LET r == BodyUnmarshalXML(b, BodyTokens(c, Append(scope, c.attr)), nilOut) IN
             IF r.err /= NoErr THEN r
             ELSE EnvelopeChildren(r.b, Tail(children), scope, nilOut)
        ELSE EnvelopeChildren(b, Tail(children), scope, nilOut)

\* xml.NewDecoder(pipeReader).Decode(&respEnvelope) on the tree written to the pipe
EnvelopeDecode(b, root, nilOut) ==
    IF root.tag /= "Envelope" \/ NamespaceURI(root.space, <<root.attr>>) /= soapEnvNS
      THEN [b |-> b, err |-> "xml.UnmarshalError"]
    ELSE EnvelopeChildren(b, root.child, <<root.attr>>, nilOut)

(***************************************************************************)
(* Destinations and messages of the XOP decoder (xop_test.go).             *)
(***************************************************************************)
OmitEmpty(name) == <<name, ",", "omitempty">>

CsvAttachmentV(csv) ==
    Struct("CsvAttachment",
           <<XMLNameField(<<"CsvAttachment">>),
             Field("CsvData", OmitEmpty("CsvData"), FALSE, TRUE, csv)>>)

ReportDataSetV(csv) ==
    Struct("ReportDataSet",
           <<Field("CsvAttachment", OmitEmpty("CsvAttachment"), FALSE, TRUE,
                   Ptr(CsvAttachmentV(csv))),
             Field("Type", OmitEmpty("Type"), FALSE, TRUE, Str("Historical"))>>)

ReportV(csv) ==
    Struct("Report",
           <<XMLNameField(<<"Report">>),
             Field("DataSets", OmitEmpty("DataSets"), FALSE, TRUE,
                   Struct("", <<Field("DataSet", OmitEmpty("DataSet"), FALSE, TRUE,
                                      Slice("ptr", 1, <<Ptr(ReportDataSetV(csv))>>))>>)),
             Field("NumberOfDataSets", OmitEmpty("NumberOfDataSets"), FALSE, TRUE, IntV(1))>>)

ResponseDataV ==
    Struct("ResponseData",
           <<Field("Result", OmitEmpty("Result"), FALSE, TRUE, Str("Success"))>>)

DelegateServiceResponseV ==
    Struct("DelegateServiceResponse",
           <<XMLNameField(<<"delegateServiceResponse">>),
             Field("ResponseData", <<>>, TRUE, TRUE, Ptr(ResponseDataV))>>)

ReportResponseV(csv) ==
    Struct("ReportResponse",
           <<Field("DelegateServiceResponse", <<>>, TRUE, TRUE, Ptr(DelegateServiceResponseV)),
             Field("Report", OmitEmpty("Report"), FALSE, TRUE, Ptr(ReportV(csv)))>>)

\* a RunTimeSeriesReportResponse as encoding/xml leaves it after the test's
\* document, its CsvData field holding csv
RunTimeSeriesReportResponseV(csv) ==
    Struct("RunTimeSeriesReportResponse",
           <<XMLNameField(<<"RunTimeSeriesReportResponse">>),
             Field("ReportResponse", <<>>, TRUE, TRUE, Ptr(ReportResponseV(csv)))>>)

\* &RunTimeSeriesReportResponse{}
RunTimeSeriesReportResponseZero ==
    Struct("RunTimeSeriesReportResponse",
           <<XMLNameField(<<"RunTimeSeriesReportResponse">>),
             Field("ReportResponse", <<>>, TRUE, TRUE, NilPtr)>>)

Text(tag) == Element("", tag, <<>>, <<CharData>>, NoDec)
Href(id) == Attr("", "href", <<"cid:", id>>)

\* the Include element of the part, in the ways a document binds the XOP
\* namespace to it: a default declaration on the element, a prefix declared on
\* the element, a default declaration inherited from CsvData, a prefix declared
\* on the Envelope; "foreign" is an Include element of another namespace
IncludeElement(form, id) ==
    IF form = "own" THEN Element("", "Include", <<Attr("", "xmlns", xopNS), Href(id)>>, <<>>, NoDec)
    ELSE IF form = "prefix"
      THEN Element("xop", "Include", <<Attr("xmlns", "xop", xopNS), Href(id)>>, <<>>, NoDec)
    ELSE IF form = "foreign"
      THEN Element("", "Include", <<Attr("", "xmlns", "urn:other"), Href(id)>>, <<>>, NoDec)
    ELSE IF form = "rootprefix" THEN Element("xop", "Include", <<Href(id)>>, <<>>, NoDec)
    ELSE Element("", "Include", <<Href(id)>>, <<>>, NoDec)

CsvDataElement(form, id) ==
    IF form = "none" THEN Element("", "CsvData", <<>>, <<CharData>>, NoDec)
    ELSE Element("", "CsvData",
                 IF form = "inherit" THEN <<Attr("", "xmlns", xopNS)>> ELSE <<>>,
                 <<IncludeElement(form, id)>>, NoDec)

\* CsvData after encoding/xml decoded the element: the character data of the
\* element, an empty slice when it holds an Include only
DecodedCsvData(form) == IF form = "none" THEN Bytes(8, <<7>>) ELSE Bytes(0, <<>>)

ReportResponseElement(form, id) ==
    Element("ns2", "RunTimeSeriesReportResponse",
            <<Attr("xmlns", "ns2", "http://example.com")>>,
            << Text("Result"),
               Element("", "Report", <<>>,
                 << Element("", "DataSets", <<>>,
                      << Element("", "DataSet", <<>>,
                           << Element("", "CsvAttachment", <<>>,
                                      <<CsvDataElement(form, id)>>, NoDec),
                              Text("Type") >>, NoDec) >>, NoDec),
                    Text("NumberOfDataSets") >>, NoDec) >>,
            Dec(TRUE, RunTimeSeriesReportResponseV(DecodedCsvData(form)), <<>>))

FaultElement ==
    Element("S", "Fault", <<>>,
            <<Text("faultcode"), Text("faultstring"), Text("faultactor")>>,
            Dec(TRUE, Nil, FaultText))

EnvelopeElement(form, bodyChild) ==
    Element("S", "Envelope",
            IF form = "rootprefix"
              THEN <<Attr("xmlns", "S", soapEnvNS), Attr("xmlns", "xop", xopNS)>>
              ELSE <<Attr("xmlns", "S", soapEnvNS)>>,
            <<Element("S", "Body", <<>>, <<bodyChild>>, NoDec)>>, NoDec)

XopContentType == <<"application/xop+xml", ";charset=utf-8;type=\"text/xml\"">>
CsvContentType == <<"text/csv">>

\* a MIME part: its Content-Type and Content-ID headers, its raw body, and for
\* an XML body whether etree can parse it and the tree it gives
Part(ctype, cid, bytes, wf, root) ==
    [kind |-> "part", ctype |-> ctype, cid |-> cid, body |-> bytes, wf |-> wf, root |-> root]
\* where the multipart reader fails to deliver a part
ReaderError == [kind |-> "error"]

ContentID(id) == <<"<", id, ">">>

XopPart(form, id) ==
    Part(XopContentType, ContentID("rootpart"), <<>>, TRUE,
         EnvelopeElement(form, ReportResponseElement(form, id)))
XopFaultPart == Part(XopContentType, ContentID("rootpart"), <<>>, TRUE, EnvelopeElement("own", FaultElement))
\* a Fault that holds an Include beside its fields: encoding/xml passes over
\* the element, the scan for includes records it
XopFaultIncludePart(id) ==
    Part(XopContentType, ContentID("rootpart"), <<>>, TRUE,
         EnvelopeElement("own",
             Element("S", "Fault", <<>>,
                     <<Text("faultcode"), Text("faultstring"), Text("faultactor"),
                       IncludeElement("own", id)>>,
                     Dec(TRUE, Nil, FaultText))))
XopMalformedPart == Part(XopContentType, ContentID("rootpart"), <<>>, FALSE, Nil)
CsvPart(id) == Part(CsvContentType, ContentID(id), <<97, 44, 98>>, TRUE, Nil)

\* the Type field of the first ReportDataSet of the destination of the test
TypeSel ==
    << [t |-> "elem"], [t |-> "field", i |-> 2], [t |-> "elem"],
       [t |-> "field", i |-> 2], [t |-> "elem"],
       [t |-> "field", i |-> 2], [t |-> "field", i |-> 1], [t |-> "index", i |-> 1],
       [t |-> "elem"], [t |-> "field", i |-> 2] >>

\* the response with its Include in the Type element, a string field, and
\* character data in CsvData; encoding/xml leaves Type empty
TypeIncludeResponseElement(id) ==
    Element("ns2", "RunTimeSeriesReportResponse",
            <<Attr("xmlns", "ns2", "http://example.com")>>,
            << Text("Result"),
               Element("", "Report", <<>>,
                 << Element("", "DataSets", <<>>,
                      << Element("", "DataSet", <<>>,
                           << Element("", "CsvAttachment", <<>>,
                                      <<CsvDataElement("none", id)>>, NoDec),
                              Element("", "Type", <<>>,
                                      <<IncludeElement("own", id)>>, NoDec) >>,
                           NoDec) >>, NoDec),
                    Text("NumberOfDataSets") >>, NoDec) >>,
            Dec(TRUE, SetAt(Ptr(RunTimeSeriesReportResponseV(DecodedCsvData("none"))),
                            TypeSel, Str("")).elem, <<>>))

XopTypeIncludePart(id) ==
    Part(XopContentType, ContentID("rootpart"), <<>>, TRUE,
         EnvelopeElement("own", TypeIncludeResponseElement(id)))

IncludeForms == {"own", "prefix", "inherit", "rootprefix", "foreign", "none"}

PartSet ==
    { XopPart(f, "X") : f \in IncludeForms }
    \cup { XopTypeIncludePart("X") }
    \cup { XopFaultPart, XopFaultIncludePart("X"), XopMalformedPart,
           CsvPart("X"), CsvPart("Y"), ReaderError }

Messages == SeqsUpTo(PartSet, MaxParts)

\* strings.Contains(part.Header.Get("Content-Type"), "application/xop+xml")
IsXop(part) == \E i \in 1..Len(part.ctype) : part.ctype[i] = "application/xop+xml"

\* ioutil.ReadAll(part): the bytes of the body in a buffer of at least 512 bytes
ReadAll(part) == Bytes(IF Len(part.body) < 512 THEN 512 ELSE Len(part.body), part.body)

\* field.Type().String() != "[]uint8"
IsByteSlice(v) == v.k = "slice" /\ v.elemk = "uint8"

(***************************************************************************)
(* xopDecoder.decode: one action for each way through an iteration of the  *)
(* loop over the parts.                                                    *)
(***************************************************************************)
InitXop ==
    /\ AuxInit
    /\ parts \in Messages
    /\ body \in { NewEnvelope(Ptr(RunTimeSeriesReportResponseZero)),
                  NewEnvelopeWithFault(Ptr(RunTimeSeriesReportResponseZero), Nil) }
    /\ pc = "parts"
    /\ err = NoErr
    /\ target = "none"
    /\ tokens = <<>>
    /\ parsedXOPHeader = FALSE
    /\ partNumber = 0
    /\ includes = NoIncludes
    /\ bodiesRead = {}
    /\ xopDecoded = {}
    /\ input = [body |-> body, tokens |-> <<>>, parts |-> parts, path |-> <<>>]

\* the number of the part that NextPart delivers next, counted from 1
PartIndex == Len(input.parts) - Len(parts) + 1

Return(e) == pc' = "done" /\ err' = e

\* lines 258-260: NextPart gives io.EOF, the loop ends and decode returns nil
DecodeEOF ==
    /\ pc = "parts" /\ parts = <<>>
    /\ Return(NoErr)
    /\ UNCHANGED <<body, tokens, target, input, auxVars, xopVars>>

\* lines 261-262: NextPart gives another error
DecodeReaderError ==
    /\ pc = "parts" /\ parts /= <<>> /\ Head(parts).kind = "error"
    /\ Return(ErrReader)
    /\ parts' = Tail(parts)
    /\ UNCHANGED <<body, tokens, target, input, auxVars, parsedXOPHeader, partNumber, includes,
                   bodiesRead, xopDecoded>>

\* lines 265-266: a part arrives after the first and no xop part was parsed
DecodeMissingXOPPart ==
    /\ pc = "parts" /\ parts /= <<>> /\ Head(parts).kind = "part"
    /\ ~parsedXOPHeader /\ partNumber > 0
    /\ Return(ErrMissingXOPPart)
    /\ parts' = Tail(parts)
    /\ UNCHANGED <<body, tokens, target, input, auxVars, parsedXOPHeader, partNumber, includes,
                   bodiesRead, xopDecoded>>

\* the guard of the rest of the iteration: NextPart gave a part and line 265 let it pass
PartAccepted ==
    /\ pc = "parts" /\ parts /= <<>> /\ Head(parts).kind = "part"
    /\ ~(~parsedXOPHeader /\ partNumber > 0)

\* lines 273-305: a part whose Content-Type contains application/xop+xml
DecodeXOPPart ==
    /\ PartAccepted /\ IsXop(Head(parts))
    /\ partNumber' = partNumber + 1
    /\ parsedXOPHeader' = TRUE
    /\ parts' = Tail(parts)
    /\ IF ~Head(parts).wf
         THEN /\ Return(SyntaxError)
              /\ UNCHANGED <<body, includes, xopDecoded>>
         ELSE /\ includes' = getXopContentIDIncludePath(includes, Head(parts).root, <<>>)
              /\ xopDecoded' = xopDecoded \cup {PartIndex}
              /\ \E nilOut \in NilPointerOutcomes :
                   LET r == EnvelopeDecode(body, Head(parts).root, nilOut) IN
                   /\ body' = r.b
                   /\ IF r.err /= NoErr THEN Return(r.err)
                      ELSE IF DOMAIN includes' = {} THEN Return(NoErr)
                      ELSE UNCHANGED <<pc, err>>
    /\ UNCHANGED <<tokens, target, input, auxVars, bodiesRead>>

\* lines 308-336: another part whose Content-ID is a key of d.includes
DecodeIncludedPart ==
    /\ PartAccepted /\ ~IsXop(Head(parts))
    /\ Head(parts).cid \in DOMAIN includes
    /\ partNumber' = partNumber + 1
    /\ parts' = Tail(parts)
    /\ LET r == getFieldFromIncludePath(body.Content, includes[Head(parts).cid]) IN
       IF r.err /= NoErr
         THEN Return(r.err) /\ UNCHANGED <<body, bodiesRead>>
       ELSE IF ~r.field.canSet
         THEN Return(ErrCannotSetBytesElement) /\ UNCHANGED <<body, bodiesRead>>
       ELSE IF ~IsByteSlice(r.field.v)
         THEN Return(errFieldNotArray) /\ UNCHANGED <<body, bodiesRead>>
       ELSE /\ bodiesRead' = bodiesRead \cup {PartIndex}
            /\ body' = [body EXCEPT !.Content = SetAt(body.Content, r.field.sel, ReadAll(Head(parts)))]
            /\ UNCHANGED <<pc, err>>
    /\ UNCHANGED <<tokens, target, input, auxVars, parsedXOPHeader, includes, xopDecoded>>

\* a part without an entry in d.includes reported as a field that was not found
DecodeOtherPart_NotFound ==
    /\ PartAccepted /\ ~IsXop(Head(parts))
    /\ Head(parts).cid \notin DOMAIN includes
    /\ partNumber' = partNumber + 1
    /\ parts' = Tail(parts)
    /\ Return(errFieldNotFound)
    /\ UNCHANGED <<body, tokens, target, input, auxVars, parsedXOPHeader, includes,
                   bodiesRead, xopDecoded>>

\* line 308, no entry: the part is passed over
DecodeOtherPart ==
    /\ PartAccepted /\ ~IsXop(Head(parts))
    /\ Head(parts).cid \notin DOMAIN includes
    /\ partNumber' = partNumber + 1
    /\ parts' = Tail(parts)
    /\ UNCHANGED <<pc, err, body, tokens, target, input, auxVars, parsedXOPHeader, includes,
                   bodiesRead, xopDecoded>>

NextXop ==
    \/ DecodeEOF
    \/ DecodeReaderError
    \/ DecodeMissingXOPPart
    \/ DecodeXOPPart
    \/ DecodeIncludedPart
    \/ DecodeOtherPart

SpecXop == InitXop /\ [][NextXop]_vars

(***************************************************************************)
(* getFieldFromIncludePath called on its own, on the destinations and      *)
(* paths below.                                                            *)
(***************************************************************************)
\* a destination without an XMLName field: its element name is its type name
PlainV ==
    Struct("Plain", <<Field("Data", <<"Data">>, FALSE, TRUE, Bytes(0, <<>>))>>)
\* a destination whose XMLName tag carries a namespace and a name
NamedV ==
    Struct("namedType",
           <<XMLNameField(<<"http://example.com", " ", "Named">>),
             Field("Data", OmitEmpty("Data"), FALSE, TRUE, Bytes(0, <<>>))>>)
\* a destination whose XMLName field has no tag
UntaggedV ==
    Struct("Untagged",
           <<XMLNameField(<<>>),
             Field("Data", <<"Data">>, FALSE, TRUE, Bytes(0, <<>>))>>)

\* a destination with an embedded struct: Data is a member of the embedded
\* field and a field declared after it, Extra a member of the embedded field
EmbeddedV ==
    Struct("Outer",
           <<Field("Inner", <<>>, TRUE, TRUE,
                   Struct("Inner",
                          <<Field("Data", <<"Data">>, FALSE, TRUE, Bytes(0, <<>>)),
                            Field("Extra", <<"Extra">>, FALSE, TRUE, Bytes(0, <<>>))>>)),
             Field("Data", <<"Data">>, FALSE, TRUE, Bytes(0, <<>>))>>)

\* a destination whose byte slice holds a byte already, in a buffer of 8
FilledV == Struct("Filled", <<Field("Data", <<"Data">>, FALSE, TRUE, Bytes(8, <<7>>))>>)

ResolveRoots ==
    { Ptr(PlainV), Ptr(NamedV), Ptr(UntaggedV), Ptr(EmbeddedV), Ptr(FilledV),
      Ptr(RunTimeSeriesReportResponseV(Bytes(0, <<>>))) }

\* the segments of the paths; "" is the only root segment line 106 accepts
Segments == { "Body", "", "Plain", "Named", "Untagged", "namedType",
              "RunTimeSeriesReportResponse", "Data", "Extra", "Report" }

InitResolve ==
    /\ AuxInit
    /\ body \in { BodyOf(r, Nil) : r \in ResolveRoots }
    /\ input \in { [body |-> body, tokens |-> <<>>, parts |-> <<>>, path |-> q] :
                     q \in SeqsUpTo(Segments, MaxPath) }
    /\ pc = "resolve"
    /\ err = NoErr
    /\ target = Panicked
    /\ tokens = <<>>
    /\ parts = <<>>
    /\ parsedXOPHeader = FALSE
    /\ partNumber = 0
    /\ includes = NoIncludes
    /\ bodiesRead = {}
    /\ xopDecoded = {}

\* getFieldFromIncludePath(reflect.ValueOf(Body.Content), path): target holds the
\* returned field and err the returned error
ResolvePath ==
    /\ pc = "resolve"
    /\ LET r == getFieldFromIncludePath(body.Content, input.path) IN
       /\ err' = r.err
       /\ target' = r.field
    /\ pc' = "done"
    /\ UNCHANGED <<body, tokens, input, auxVars, xopVars>>

NextResolve == ResolvePath

SpecResolve == InitResolve /\ [][NextResolve]_vars

(***************************************************************************)
(* Properties of the envelope decoder.                                     *)
(***************************************************************************)
IsFaultStart(tok) == tok.t = "start" /\ tok.space = soapEnvNS /\ tok.local = "Fault"

\* C1: after a decode of Body that returned nil, exactly one of Body.Content and
\* Body.Fault is non-nil, whatever the number of children of Body.
C1_ExactlyOneOfContentAndFault ==
    (pc = "done" /\ err = NoErr) => ((body.Content = Nil) /= (body.Fault = Nil))

\* C2: a child element named (SOAP envelope namespace, Fault) is decoded into
\* Body.Fault and Content is nil afterwards; any other child element, one named
\* Fault in another namespace included, is decoded into Body.Content and Fault is
\* nil afterwards; the first end element at Body level ends the decode with nil.
C2_DispatchOnQualifiedName ==
    [][ (pc = "tokens" /\ tokens /= <<>>) =>
          LET tok == Head(tokens) IN
          /\ IsFaultStart(tok) =>
               /\ target' = "Fault"
               /\ err' = NoErr =>
                    /\ body'.Content = Nil
                    /\ body'.Fault /= Nil
                    /\ body'.Fault.Code = tok.children[1].text
                    /\ pc' = "tokens"
          /\ (tok.t = "start" /\ ~IsFaultStart(tok)) =>
               /\ target' = "Content"
               /\ err' = NoErr =>
                    /\ body'.Fault = Nil
                    /\ body'.Content = Ptr(tok.decoded)
                    /\ pc' = "tokens"
          /\ tok.t = "end" => (pc' = "done" /\ err' = NoErr /\ body' = body)
      ]_vars

\* an element named Fault in another namespace was decoded as content and the
\* decode returned nil at Body's end element
C2_Witness ==
    /\ pc = "done" /\ err = NoErr /\ target = "Content"
    /\ body.Fault = Nil
    /\ body.Content = Ptr(ContentExample(11))
    /\ Len(input.tokens) = 2 /\ input.tokens[1].local = "Fault"

\* C3: with a nil Content destination the decode of Body returns
\* ErrEnvelopeMisconfigured before it reads any token inside Body, well formed
\* or not, and changes neither Body.Content nor Body.Fault.
C3_NilContentIsMisconfigured ==
    (input.body.Content = Nil /\ pc /= "body") =>
        /\ pc = "done"
        /\ err = ErrEnvelopeMisconfigured
        /\ tokens = input.tokens
        /\ body = input.body

\* the decode of a malformed body with a nil destination has returned
C3_Witness ==
    /\ pc = "done" /\ err = ErrEnvelopeMisconfigured
    /\ input.body.Content = Nil
    /\ input.tokens[1].t = "start" /\ ~input.tokens[1].ok

\* the first detail child of a Fault element that is well formed up to it
HasDetail(children) ==
    \E i \in 1..Len(children) :
        /\ children[i].n = "detail"
        /\ \A m \in 1..(i - 1) : children[m].n /= "error"

\* C4: decoding a Fault element that holds a detail element into a fault without
\* a detail destination (NewFault, or a nil destination given to the
\* constructors) returns ErrFaultDetailPresentButNotSpecified, for an empty
\* detail as for one with a payload, and the decode of the envelope returns
\* that error.
C4_DetailWithoutDestination ==
    [][ ( /\ pc = "tokens" /\ tokens /= <<>>
          /\ IsFaultStart(Head(tokens))
          /\ body.Fault /= Nil
          /\ Detail(body.Fault) = Nil
          /\ HasDetail(Head(tokens).children) )
        => (pc' = "done" /\ err' = ErrFaultDetailPresentButNotSpecified)
      ]_vars

\* an envelope built with a nil detail destination met an empty detail element
C4_Witness ==
    /\ pc = "done" /\ err = ErrFaultDetailPresentButNotSpecified
    /\ input.body.Fault /= Nil
    /\ IsFaultStart(input.tokens[1])
    /\ HasDetail(input.tokens[1].children)
    /\ input.tokens[1].children[4].tokens = <<EndElement>>

(***************************************************************************)
(* Properties of the XOP decoder.                                          *)
(***************************************************************************)
\* the parts NextPart has delivered so far
Fetched == SubSeq(input.parts, 1, Len(input.parts) - Len(parts))

WellFormedMessage == \A i \in 1..Len(input.parts) : input.parts[i].kind = "part"

\* C5: when the first part is not an xop+xml part, decode returns
\* ErrMissingXOPPart, whatever the number of parts after it, none included.
C5_FirstPartMustBeXop ==
    ( /\ pc = "done"
      /\ WellFormedMessage
      /\ input.parts /= <<>>
      /\ ~IsXop(input.parts[1]) )
    => err = ErrMissingXOPPart

XopFetched == { i \in 1..Len(Fetched) : Fetched[i].kind = "part" /\ IsXop(Fetched[i]) }

\* C6: once a second xop+xml part has been delivered, decode has returned
\* ErrMissingXOPPart and that part was not decoded into the envelope.
C6_SecondXopPartRejected ==
    (Cardinality(XopFetched) >= 2 /\ \A i \in XopFetched : Fetched[i].wf) =>
        /\ pc = "done"
        /\ err = ErrMissingXOPPart
        /\ Cardinality(xopDecoded) <= 1

\* the CsvData field of the destination of the test
CsvDataSel ==
    << [t |-> "elem"], [t |-> "field", i |-> 2], [t |-> "elem"],
       [t |-> "field", i |-> 2], [t |-> "elem"],
       [t |-> "field", i |-> 2], [t |-> "field", i |-> 1], [t |-> "index", i |-> 1],
       [t |-> "elem"], [t |-> "field", i |-> 1], [t |-> "elem"],
       [t |-> "field", i |-> 2] >>

RawBytes(v) == [i \in 1..Len(v.items) |-> v.items[i].b]

\* C7: for the message of TestMultipartResponseWithCSV (an xop+xml root part
\* with an Include of cid:X under Body/RunTimeSeriesReportResponse/Report/
\* DataSets/DataSet/CsvAttachment/CsvData, then a part with Content-ID <X>),
\* decode goes on without an error after the second part and the CsvData field
\* holds exactly the raw body of that part.
C7_AttachmentStoredInByteField ==
    ( /\ Len(input.parts) >= 2
      /\ input.parts[1] = XopPart("own", "X")
      /\ input.parts[2] = CsvPart("X")
      /\ Len(Fetched) = 2 )
    => /\ err = NoErr
       /\ body.Content /= Nil
       /\ RawBytes(GetAt(body.Content, CsvDataSel)) = input.parts[2].body

RECURSIVE ExpectedIncludes(_, _, _)
\* the Include elements below an element by the namespace each resolves to:
\* the set of [key, path] over the children, scope holding the declarations
\* in force
ExpectedIncludes(children, scope, path) ==
    UNION { LET c == children[i]
                sc == Append(scope, c.attr)
                hrefs == { j \in 1..Len(c.attr) : c.attr[j].key = "href" }
                href == IF hrefs = {} THEN <<>> ELSE c.attr[CHOOSE j \in hrefs : TRUE].value
                cleaned == IF href /= <<>> /\ href[1] = "cid:" THEN Tail(href) ELSE href
            IN IF c.t /= "element" THEN {}
               ELSE IF NamespaceURI(c.space, sc) = xopNS /\ c.tag = "Include"
                 THEN { [key |-> <<"<">> \o cleaned \o <<">">>, path |-> path] }
               ELSE ExpectedIncludes(c.child, sc, Append(path, c.tag))
          : i \in 1..Len(children) }

IncludeEntries == { [key |-> x, path |-> includes[x]] : x \in DOMAIN includes }

\* C9: after the scan of the xop+xml part the include map holds an entry for
\* exactly the elements named Include whose namespace resolves to the XOP
\* include namespace, however that namespace is bound; the key is the href
\* without its leading cid: in angle brackets, the value the tags from the
\* root's child down to the parent of the Include.
C9_IncludesByResolvedNamespace ==
    xopDecoded = {1} =>
        IncludeEntries = ExpectedIncludes(input.parts[1].root.child,
                                          <<input.parts[1].root.attr>>, <<>>)

\* C10: a part that is not an xop+xml part and whose Content-ID is no key of
\* the include map is passed over: decode goes on without an error, the body of
\* the part is not read and the destination is left as it is.
C10_UnreferencedPartIgnored ==
    [][ ( /\ PartAccepted
          /\ ~IsXop(Head(parts))
          /\ Head(parts).cid \notin DOMAIN includes )
        => /\ pc' = "parts"
           /\ err' = NoErr
           /\ body' = body
           /\ bodiesRead' = bodiesRead
           /\ includes' = includes
      ]_vars

\* a part with an unreferenced Content-ID was passed over after the xop+xml
\* part had left an entry in the include map
C10_Witness ==
    /\ pc = "parts" /\ err = NoErr
    /\ parsedXOPHeader
    /\ Len(Fetched) = 2
    /\ DOMAIN includes = {ContentID("X")}
    /\ Fetched[2] = CsvPart("Y")
    /\ bodiesRead = {}

(***************************************************************************)
(* Properties of the include path resolver.                                *)
(***************************************************************************)
\* the element name a destination declares: the name in its XMLName tag, else
\* the name of its type
DeclaredName(root) ==
    IF getExplicitXMLName(root) /= "" THEN getExplicitXMLName(root) ELSE root.tname

\* C8: a path is accepted only when its segment after Body is the declared
\* element name of the Content root; then resolution goes on to the later
\* segments, and with another segment an error and no field is returned.
C8_RootSegmentMatchesDeclaredName ==
    ( /\ pc = "done"
      /\ Len(input.path) >= 2
      /\ input.path[1] = "Body" )
    => IF input.path[2] = DeclaredName(body.Content.elem)
         THEN err /= ErrInvalidObjectPath
         ELSE err /= NoErr /\ ~target.ok

(***************************************************************************)
(* Properties of the field checks of decode.                               *)
(***************************************************************************)
\* C11: when the path of the include names a field that is not a byte slice
\* (the Include sits in the Type element, a string field, and the part with
\* its Content-ID follows), decode returns errFieldNotArray on that part, the
\* body of the part is not read and the destination stays as the xop+xml part
\* left it.
C11_FieldCheckedBeforeRead ==
    ( /\ Len(input.parts) >= 2
      /\ input.parts[1] = XopTypeIncludePart("X")
      /\ input.parts[2] = CsvPart("X")
      /\ Len(Fetched) = 2 )
    => /\ pc = "done"
       /\ err = errFieldNotArray
       /\ bodiesRead = {}
       /\ body.Content = Ptr(input.parts[1].root.child[1].child[1].dec.decoded)

(***************************************************************************)
(* Encoding an Envelope with encoding/xml and decoding the bytes again.    *)
(* The encoder names an element by the XMLName tag, else the XMLName       *)
(* value, else the field, else the type; it writes xmlns="space" on an     *)
(* element whose name has a space and nothing on one whose name has none.  *)
(***************************************************************************)
\* an xml.Name
XMLNameV(space, local) == [k |-> "Name", Space |-> space, Local |-> local]
NameField(tag, space, local) == Field(xmlName, tag, FALSE, TRUE, XMLNameV(space, local))

\* character data holding text
TextData(s) == [t |-> "chardata", text |-> s]

\* the namespace of a tag "space name,flags", "" when it has none
tagSpace(tag) == IF Len(tag) >= 3 /\ tag[2] = " " THEN tag[1] ELSE ""
tagHasFlag(tag, flag) == \E i \in 2..Len(tag) : tag[i - 1] = "," /\ tag[i] = flag

DigitChars == <<"0", "1", "2", "3", "4", "5", "6", "7", "8", "9">>
\* strconv.FormatInt(n, 10) for 0 <= n < 100
Itoa(n) ==
    IF n < 10 THEN <<DigitChars[n + 1]>>
    ELSE <<DigitChars[(n \div 10) + 1], DigitChars[(n % 10) + 1]>>
DigitValue(c) == (CHOOSE i \in 1..10 : DigitChars[i] = c) - 1
RECURSIVE Atoi(_)
\* strconv.ParseInt(s, 10, 32) on digits
Atoi(s) == IF s = <<>> THEN 0 ELSE Atoi(SubSeq(s, 1, Len(s) - 1)) * 10 + DigitValue(s[Len(s)])

\* the text the encoder writes for a value of a simple kind, and the value the
\* decoder makes of text for a destination of that kind
FormatSimple(v) == IF v.k = "int" THEN Itoa(v.n) ELSE <<v.s>>
ParseSimple(zero, text) == IF zero.k = "int" THEN IntV(Atoi(text)) ELSE Str(AsString(text))

NameFieldIndex(v) ==
    IF \E i \in 1..Len(v.fields) : v.fields[i].name = xmlName
      THEN CHOOSE i \in 1..Len(v.fields) : v.fields[i].name = xmlName
      ELSE 0

\* the name of the element marshalValue starts for struct v held by a field
\* with tag ftag ("" names: none)
StartName(v, fname, ftag) ==
    LET i == NameFieldIndex(v) IN
    IF i > 0 /\ getNameFromTag(v.fields[i].tag) /= ""
      THEN XMLNameV(tagSpace(v.fields[i].tag), getNameFromTag(v.fields[i].tag))
    ELSE IF i > 0 /\ v.fields[i].v.Local /= "" THEN v.fields[i].v
    ELSE IF getNameFromTag(ftag) /= "" THEN XMLNameV(tagSpace(ftag), getNameFromTag(ftag))
    ELSE IF fname /= "" THEN XMLNameV("", fname)
    ELSE XMLNameV("", v.tname)

RECURSIVE MarshalStruct(_, _, _)
\* marshalValue on a struct: the element it writes
MarshalStruct(v, fname, ftag) ==
    LET name == StartName(v, fname, ftag)
        IsAttr(f) == f.name /= xmlName /\ tagHasFlag(f.tag, "attr")
        IsData(f) == f.name /= xmlName /\ tagHasFlag(f.tag, "chardata")
        IsElem(f) == f.name /= xmlName /\ ~IsAttr(f) /\ ~IsData(f)
        attrOf(f) == Attr("", getNameFromTag(f.tag), FormatSimple(f.v))
        childOf(f) ==
            IF IsData(f) THEN TextData(FormatSimple(f.v))
            ELSE IF f.v.k = "struct" THEN MarshalStruct(f.v, f.name, f.tag)
            ELSE Element("", IF getNameFromTag(f.tag) /= "" THEN getNameFromTag(f.tag) ELSE f.name,
                         <<>>, <<TextData(FormatSimple(f.v))>>, NoDec)
        Written(f) == IsElem(f) \/ (IsData(f) /\ f.v.s /= "")
        attrs == SelectSeq(v.fields, IsAttr)
        kids == SelectSeq(v.fields, Written)
    IN Element("", name.Local,
               (IF name.Space /= "" THEN <<Attr("", "xmlns", name.Space)>> ELSE <<>>)
                 \o [i \in 1..Len(attrs) |-> attrOf(attrs[i])],
               [i \in 1..Len(kids) |-> childOf(kids[i])], NoDec)

\* the character data directly inside an element, as the decoder collects it
ElementText(elem) ==
    LET texts == SelectSeq(elem.child, LAMBDA c : c.t = "chardata") IN
    IF texts = <<>> THEN <<>> ELSE texts[1].text

RECURSIVE UnmarshalStruct(_, _, _)
RECURSIVE unmarshalFields(_, _, _, _)
\* the fields of struct dest from index i on filled from element elem: the
\* XMLName field takes the resolved name of the element, an attr field the
\* attribute of its name, a chardata field the text, another field the last
\* child element of its name
unmarshalFields(dest, elem, scope, i) ==
    IF i > Len(dest.fields) THEN [v |-> dest, err |-> NoErr]
    ELSE
      LET f == dest.fields[i]
          name == getNameFromTag(f.tag)
          ename == IF name /= "" THEN name ELSE f.name
          attrs == { j \in 1..Len(elem.attr) :
                       elem.attr[j].space = "" /\ elem.attr[j].key = name }
          kids == { j \in 1..Len(elem.child) :
                      /\ elem.child[j].t = "element"
                      /\ elem.child[j].tag = ename
                      /\ \/ tagSpace(f.tag) = ""
                         \/ tagSpace(f.tag) =
                              NamespaceURI(elem.child[j].space,
                                           Append(scope, elem.child[j].attr)) }
          last == CHOOSE j \in kids : \A m \in kids : m <= j
          r == IF f.name = xmlName
                 THEN [v |-> XMLNameV(NamespaceURI(elem.space, scope), elem.tag), err |-> NoErr]
               ELSE IF tagHasFlag(f.tag, "attr")
                 THEN [v |-> IF attrs = {} THEN f.v
                             ELSE ParseSimple(f.v, elem.attr[CHOOSE j \in attrs : TRUE].value),
                       err |-> NoErr]
               ELSE IF tagHasFlag(f.tag, "chardata")
                 THEN [v |-> ParseSimple(f.v, ElementText(elem)), err |-> NoErr]
               ELSE IF kids = {} THEN [v |-> f.v, err |-> NoErr]
               ELSE IF f.v.k = "struct"
                 THEN UnmarshalStruct(f.v, elem.child[last], Append(scope, elem.child[last].attr))
               ELSE [v |-> ParseSimple(f.v, ElementText(elem.child[last])), err |-> NoErr]
          d2 == [dest EXCEPT !.fields[i].v = r.v]
      IN IF r.err /= NoErr THEN [v |-> d2, err |-> r.err]
         ELSE unmarshalFields(d2, elem, scope, i + 1)

\* unmarshal of element elem into struct dest; scope holds the declarations in
\* force, those of elem included.  An XMLName tag that names another element
\* or another namespace is an error.
UnmarshalStruct(dest, elem, scope) ==
    LET i == NameFieldIndex(dest)
        tag == IF i > 0 THEN dest.fields[i].tag ELSE <<>>
    IN IF /\ getNameFromTag(tag) /= ""
          /\ \/ getNameFromTag(tag) /= elem.tag
             \/ tagSpace(tag) /= "" /\ tagSpace(tag) /= NamespaceURI(elem.space, scope)
         THEN [v |-> dest, err |-> "xml.UnmarshalError"]
       ELSE unmarshalFields(dest, elem, scope, 1)

RECURSIVE ZeroOf(_)
\* the zero value of the type of v
ZeroOf(v) ==
    IF v.k = "struct"
      THEN [v EXCEPT !.fields = [i \in 1..Len(v.fields) |->
                                   [v.fields[i] EXCEPT !.v = ZeroOf(v.fields[i].v)]]]
    ELSE IF v.k = "Name" THEN XMLNameV("", "")
    ELSE IF v.k = "int" THEN IntV(0)
    ELSE Str("")

\* xml.Marshal of an Envelope without headers whose Body holds content alone:
\* Envelope and Body carry the envelope namespace as their default namespace,
\* the nil Fault and the empty attributes are left out, and the payload is the
\* element of the struct Content points to
MarshalEnvelope(b) ==
    Element("", "Envelope", <<Attr("", "xmlns", soapEnvNS)>>,
            << Element("", "Body", <<Attr("", "xmlns", soapEnvNS)>>,
                       IF b.Content = Nil THEN <<>>
                       ELSE <<MarshalStruct(b.Content.elem, "Content", <<",", "omitempty">>)>>,
                       NoDec) >>,
            NoDec)

\* the children of an element as the decoder hands them to the Fault struct
FaultTextOf(elem) ==
    LET kids == SelectSeq(elem.child, LAMBDA c : c.t = "element") IN
    [i \in 1..Len(kids) |-> [n |-> kids[i].tag, text |-> AsString(ElementText(kids[i]))]]

\* the document read back: each child of Body with what the decoder makes of
\* it for a destination struct dest
WithDecoding(doc, dest) ==
    LET bodyElem == doc.child[1]
        scope == <<doc.attr, bodyElem.attr>>
        dec(c) == LET r == UnmarshalStruct(dest, c, Append(scope, c.attr))
                  IN Dec(r.err = NoErr, r.v, FaultTextOf(c))
    IN [bodyElem EXCEPT !.child = [i \in 1..Len(bodyElem.child) |->
                                     IF bodyElem.child[i].t = "element"
                                       THEN [bodyElem.child[i] EXCEPT !.dec = dec(bodyElem.child[i])]
                                       ELSE bodyElem.child[i]]]

MaxAttr == 11
Texts == { "", "This is a test string" }

\* envelope_test.go: envelopeContentExample with its XMLName set as the tests set it
EncodeExample(n, text) ==
    Struct("envelopeContentExample",
           <<NameField(<<"ContentExample">>, "", "ContentExample"),
             Field("Attr1", <<"attr1", ",", "attr">>, FALSE, TRUE, IntV(n)),
             Field("Field1", <<"ContentField">>, FALSE, TRUE,
                   Struct("envelopeExampleField",
                          <<NameField(<<"ContentField">>, "", "ContentField"),
                            Field("Attr2", <<"attr2", ",", "attr">>, FALSE, TRUE, IntV(11)),
                            Field("Value", <<",", "chardata">>, FALSE, TRUE, Str(text))>>))>>)
\* a payload type without an XMLName field
PlainContent(n, text) ==
    Struct("plainContent",
           <<Field("Attr1", <<"attr1", ",", "attr">>, FALSE, TRUE, IntV(n)),
             Field("Value", <<"Value">>, FALSE, TRUE, Str(text))>>)
\* a payload type whose XMLName tag names a namespace
QualifiedContent(n, text) ==
    Struct("qualifiedContent",
           <<NameField(<<"http://example.com", " ", "Named">>, "http://example.com", "Named"),
             Field("Attr1", <<"attr1", ",", "attr">>, FALSE, TRUE, IntV(n)),
             Field("Value", <<",", "chardata">>, FALSE, TRUE, Str(text))>>)
\* a payload type whose element is named Fault, in no namespace
FaultNamedContent(n, text) ==
    Struct("operationFault",
           <<NameField(<<"Fault">>, "", "Fault"),
             Field("Attr1", <<"attr1", ",", "attr">>, FALSE, TRUE, IntV(n)),
             Field("Reason", <<"faultstring">>, FALSE, TRUE, Str(text))>>)

RoundTripContents ==
    UNION { { EncodeExample(n, x), PlainContent(n, x), QualifiedContent(n, x),
              FaultNamedContent(n, x) } : n \in 0..MaxAttr, x \in Texts }

InitRoundTrip ==
    /\ AuxInit
    /\ body \in { NewEnvelope(Ptr(c)) : c \in RoundTripContents }
    /\ pc = "encode"
    /\ err = NoErr
    /\ target = "none"
    /\ tokens = <<>>
    /\ parts = <<>>
    /\ parsedXOPHeader = FALSE
    /\ partNumber = 0
    /\ includes = NoIncludes
    /\ bodiesRead = {}
    /\ xopDecoded = {}
    /\ input = [body |-> body, tokens |-> <<>>, parts |-> <<>>, path |-> <<>>]

\* the envelope is encoded, and the decoder is started on the bytes with a
\* fresh envelope around a zero destination of the type of the content
EncodeEnvelope ==
    /\ pc = "encode"
    /\ LET doc == MarshalEnvelope(body)
           dest == ZeroOf(body.Content.elem)
       IN /\ tokens' = BodyTokens(WithDecoding(doc, dest), <<doc.attr, doc.child[1].attr>>)
          /\ \E fresh \in { NewEnvelope(Ptr(dest)), NewEnvelopeWithFault(Ptr(dest), Nil) } :
               body' = fresh
    /\ pc' = "body"
    /\ UNCHANGED <<err, target, input, auxVars, xopVars>>

NextRoundTrip == EncodeEnvelope \/ UnmarshalBodyEnter \/ UnmarshalBodyToken

SpecRoundTrip == InitRoundTrip /\ [][NextRoundTrip]_vars

(***************************************************************************)
(* Properties of the round trip.                                           *)
(***************************************************************************)
RECURSIVE WithoutNames(_)
\* a value with the xml.Name values in it blanked
WithoutNames(v) ==
    IF v.k = "struct"
      THEN [v EXCEPT !.fields = [i \in 1..Len(v.fields) |->
                                   [v.fields[i] EXCEPT !.v = WithoutNames(v.fields[i].v)]]]
    ELSE IF v.k = "Name" THEN XMLNameV("", "")
    ELSE v

\* C12: an Envelope holding a content object, encoded and then decoded into a
\* fresh destination of the same type, gives no error, a nil Fault and a
\* content equal to the original; the namespaces the encoding added, which the
\* decoder records in the XMLName fields, are left out of the comparison.
C12_EncodeDecodeRoundTrip ==
    (pc = "done" /\ input.body.Content /= Nil) =>
        /\ err = NoErr
        /\ body.Fault = Nil
        /\ body.Content /= Nil
        /\ WithoutNames(body.Content.elem) = WithoutNames(input.body.Content.elem)

(***************************************************************************)
(* Canonicalization (canonicalize.go).  The document is an etree tree      *)
(* under the Document's own element; bytes are the tree with the names     *)
(* written out as prefix:name.                                             *)
(***************************************************************************)
errInvalidCanonicalizationPath == "invalid path to canonicalize"

\* the Document of a root element: an element without a name holding the root
Document(root) == Element("", "", <<>>, <<root>>, NoDec)

WriteName(space, key) == IF space = "" THEN <<key>> ELSE <<space, ":", key>>
\* etree's spaceDecompose: a written name taken apart at its colon
spaceDecompose(name) ==
    IF Len(name) = 3 THEN [space |-> name[1], key |-> name[3]]
    ELSE [space |-> "", key |-> name[1]]

RECURSIVE WriteTo(_)
\* Document.WriteToBytes on an element
WriteTo(e) ==
    IF e.t /= "element" THEN e
    ELSE [t |-> "element", name |-> WriteName(e.space, e.tag),
          attr |-> [i \in 1..Len(e.attr) |->
                      [name |-> WriteName(e.attr[i].space, e.attr[i].key),
                       value |-> e.attr[i].value]],
          child |-> [i \in 1..Len(e.child) |-> WriteTo(e.child[i])]]

RECURSIVE ReadFrom(_)
\* Document.ReadFromBytes on the bytes of an element
ReadFrom(x) ==
    IF x.t /= "element" THEN x
    ELSE Element(spaceDecompose(x.name).space, spaceDecompose(x.name).key,
                 [i \in 1..Len(x.attr) |->
                    Attr(spaceDecompose(x.attr[i].name).space,
                         spaceDecompose(x.attr[i].name).key, x.attr[i].value)],
                 [i \in 1..Len(x.child) |-> ReadFrom(x.child[i])], NoDec)

\* Element.CreateAttr("xmlns:" + prefix, value): the attribute of that name
\* takes the value, or is appended
CreateAttr(attrs, prefix, value) ==
    IF \E i \in 1..Len(attrs) : attrs[i].space = "xmlns" /\ attrs[i].key = prefix
      THEN LET i == CHOOSE j \in 1..Len(attrs) :
                      /\ attrs[j].space = "xmlns" /\ attrs[j].key = prefix
                      /\ \A m \in 1..(j-1) : ~(attrs[m].space = "xmlns" /\ attrs[m].key = prefix)
           IN [attrs EXCEPT ![i].value = value]
      ELSE Append(attrs, Attr("xmlns", prefix, value))

\* RemoveAttr leaving the attributes as they are
RemoveAttr_Keep(attrs) == attrs

\* Element.RemoveAttr("xmlns"): the first attribute xmlns without a prefix removed
RemoveAttr(attrs) ==
    IF \E i \in 1..Len(attrs) : attrs[i].space = "" /\ attrs[i].key = "xmlns"
      THEN LET i == CHOOSE j \in 1..Len(attrs) :
                      /\ attrs[j].space = "" /\ attrs[j].key = "xmlns"
                      /\ \A m \in 1..(j-1) : ~(attrs[m].space = "" /\ attrs[m].key = "xmlns")
           IN SubSeq(attrs, 1, i-1) \o SubSeq(attrs, i+1, Len(attrs))
      ELSE attrs

\* namespaces whose index starts at 2
NewNamespaces_FromTwo == [nsIdx |-> 2, nsMap |-> [u \in {} |-> ""], hist |-> <<>>]

\* nsIdx and nsMap at the start of canonicalize; hist keeps, for each xmlns
\* attribute looked up in nsMap, the URI, the prefix taken and nsIdx and nsMap
\* before and after
NewNamespaces == [nsIdx |-> 1, nsMap |-> [u \in {} |-> ""], hist |-> <<>>]

\* lines 126-134 seen from outside: the lookup of uri in ns gave canonNs and
\* left nsIdx and nsMap
Looked(ns, uri, canonNs, nsIdx, nsMap) ==
    [nsIdx |-> nsIdx, nsMap |-> nsMap,
     hist |-> Append(ns.hist, [uri |-> uri, canonNs |-> canonNs,
                               idxBefore |-> ns.nsIdx, mapBefore |-> ns.nsMap,
                               idxAfter |-> nsIdx, mapAfter |-> nsMap])]

RECURSIVE canonAttrs(_, _, _, _, _)
\* the loop over token.Attr as it was at the start of the loop, from index i:
\* canonNs, the namespaces and the attributes of the token after it
canonAttrs(snapshot, i, canonNs, ns, attrs) ==
    IF i > Len(snapshot) THEN [canonNs |-> canonNs, ns |-> ns, attrs |-> attrs]
    ELSE
      LET a == snapshot[i] IN
      IF a.key /= "xmlns" THEN canonAttrs(snapshot, i + 1, canonNs, ns, attrs)
      ELSE IF a.value = soapEnvNS THEN canonAttrs(snapshot, i + 1, canonNs, ns, attrs)
      ELSE IF a.value \in DOMAIN ns.nsMap
        THEN canonAttrs(snapshot, i + 1, ns.nsMap[a.value],
                        Looked(ns, a.value, ns.nsMap[a.value], ns.nsIdx, ns.nsMap), attrs)
      ELSE LET minted == "ns" \o ToString(ns.nsIdx)
               ns2 == Looked(ns, a.value, minted, ns.nsIdx + 1,
                             [u \in DOMAIN ns.nsMap \cup {a.value} |->
                                IF u = a.value THEN minted ELSE ns.nsMap[u]])
           IN canonAttrs(snapshot, i + 1, minted, ns2, CreateAttr(attrs, minted, a.value))

RECURSIVE canonicalizeChildren(_, _)
RECURSIVE canonTokens(_, _, _, _)
\* the loop over element.Child from index i, space being element.Space
canonTokens(children, i, space, ns) ==
    IF i > Len(children) THEN [child |-> children, ns |-> ns]
    ELSE
      LET token == children[i] IN
      IF token.t /= "element" THEN canonTokens(children, i + 1, space, ns)
      ELSE
        LET a == canonAttrs(token.attr, 1, space, ns, token.attr)
            renamed == [token EXCEPT !.space = a.canonNs, !.attr = RemoveAttr(a.attrs)]
            r == canonicalizeChildren(renamed, a.ns)
        IN canonTokens([children EXCEPT ![i] = r.element], i + 1, space, r.ns)

\* canonicalizeChildren that also removes the default declaration of the
\* element it is called on
canonicalizeChildren_RemoveOwnDefault(element, ns) ==
    LET r == canonTokens(element.child, 1, element.space, ns)
    IN [element |-> [element EXCEPT !.child = r.child, !.attr = RemoveAttr(element.attr)],
        ns |-> r.ns]

\* canonicalizeChildren(element, nsIdx, nsMap): the element after the call and
\* the namespaces after it
canonicalizeChildren(element, ns) ==
    LET r == canonTokens(element.child, 1, element.space, ns)
    IN [element |-> [element EXCEPT !.child = r.child], ns |-> r.ns]

RECURSIVE ElemAt(_, _)
\* the element reached from e by the child indices loc
ElemAt(e, loc) == IF loc = <<>> THEN e ELSE ElemAt(e.child[Head(loc)], Tail(loc))

RECURSIVE ReplaceAt(_, _, _)
ReplaceAt(e, loc, new) ==
    IF loc = <<>> THEN new
    ELSE [e EXCEPT !.child[Head(loc)] = ReplaceAt(e.child[Head(loc)], Tail(loc), new)]

RECURSIVE childrenByTag(_, _, _)
\* etree's selectChildrenByTag on each candidate in turn: the places of the
\* child elements with the tag, whatever their prefix
childrenByTag(doc, locs, tag) ==
    IF locs = <<>> THEN <<>>
    ELSE LET e == ElemAt(doc, Head(locs))
             hits == SelectSeq([i \in 1..Len(e.child) |-> i],
                               LAMBDA i : e.child[i].t = "element" /\ e.child[i].tag = tag)
         IN [i \in 1..Len(hits) |-> Append(Head(locs), hits[i])]
              \o childrenByTag(doc, Tail(locs), tag)

RECURSIVE findAll(_, _, _)
findAll(doc, locs, path) ==
    IF path = <<>> THEN locs
    ELSE findAll(doc, childrenByTag(doc, locs, Head(path)), Tail(path))

\* FindElement finding nothing for the empty path
FindElement_NoEmptyPath(doc, path) ==
    IF path = <<>> THEN <<>> ELSE findAll(doc, << <<>> >>, path)

\* Document.FindElement(rootElement): the places found, the first of which is
\* the element returned; the empty path selects the Document's element itself
FindElement(doc, path) == findAll(doc, << <<>> >>, path)

Malformed == [t |-> "malformed"]

\* canonicalize(bytes, rootElement), the path split at its slashes
canonicalize(bytes, rootElement) ==
    IF bytes = Malformed THEN [out |-> Nil, err |-> SyntaxError, ns |-> NewNamespaces]
    ELSE
      LET canonicalDoc == Document(ReadFrom(bytes))
          found == FindElement(canonicalDoc, rootElement)
      IN IF found = <<>> THEN [out |-> Nil, err |-> errInvalidCanonicalizationPath,
                               ns |-> NewNamespaces]
         ELSE LET startElem == ElemAt(canonicalDoc, found[1])
                  r == canonicalizeChildren(startElem, NewNamespaces)
              IN [out |-> WriteTo(ReplaceAt(canonicalDoc, found[1], r.element).child[1]),
                  err |-> NoErr, ns |-> r.ns]

(***************************************************************************)
(* Documents and paths given to canonicalize (canonicalize_test.go).       *)
(***************************************************************************)
requestNS == "http://example.com/interfaces/example/v1/request.xsd"
otherNS == "urn:other"
\* what an element declares as its default namespace; "" for no declaration
NsOptions == { "", requestNS, otherNS, soapEnvNS }
Declared(u) == IF u = "" THEN <<>> ELSE <<Attr("", "xmlns", u)>>

\* the document of the "canonicalize child case", each of Envelope, Header,
\* Body and request declaring e, h, b and r
CanonDocument(e, h, b, r) ==
    Element("", "Envelope",
            Declared(e) \o <<Attr("xmlns", "xsd", "http://www.w3.org/2001/XMLSchema")>>,
            << Element("", "Header", Declared(h),
                       <<Element("", "headerElement", <<>>, <<CharData>>, NoDec)>>, NoDec),
               Element("", "Body", Declared(b),
                       << Element("", "request", Declared(r),
                                  << Element("", "object1", <<>>, <<CharData>>, NoDec),
                                     Element("", "field2", <<Attr("", "attr1", "1")>>,
                                             <<>>, NoDec) >>, NoDec) >>, NoDec) >>,
            NoDec)

CanonDocuments ==
    { WriteTo(CanonDocument(e, h, b, r)) : e \in NsOptions, h \in NsOptions,
                                          b \in NsOptions, r \in NsOptions }
    \cup { Malformed }

CanonPaths ==
    { <<>>, <<"Envelope">>, <<"Envelope", "Body">>, <<"asdf">>, <<"Envelope", "asdf">> }

InitCanon ==
    /\ input \in { [bytes |-> d, path |-> q] : d \in CanonDocuments, q \in CanonPaths }
    /\ pc = "canonicalize"
    /\ AuxInit
    /\ err = NoErr
    /\ body = BodyOf(Nil, Nil)
    /\ target = "none"
    /\ tokens = <<>>
    /\ parts = <<>>
    /\ parsedXOPHeader = FALSE
    /\ partNumber = 0
    /\ includes = NoIncludes
    /\ bodiesRead = {}
    /\ xopDecoded = {}

decoderVars == <<body, tokens, target, xopVars>>

\* canonicalize on the input document
Canonicalize ==
    /\ pc = "canonicalize"
    /\ LET r == canonicalize(input.bytes, input.path) IN
       /\ canonical' = <<r.out>>
       /\ err' = r.err
       /\ pc' = IF r.err = NoErr THEN "again" ELSE "done"
    /\ UNCHANGED <<input, decoderVars, signVars, respVars>>

\* canonicalize on its own output, with the same path
CanonicalizeAgain ==
    /\ pc = "again"
    /\ LET r == canonicalize(canonical[1], input.path) IN
       /\ canonical' = Append(canonical, r.out)
       /\ err' = r.err
    /\ pc' = "done"
    /\ UNCHANGED <<input, decoderVars, signVars, respVars>>

NextCanon == Canonicalize \/ CanonicalizeAgain

SpecCanon == InitCanon /\ [][NextCanon]_vars

(***************************************************************************)
(* Properties of canonicalize.                                             *)
(***************************************************************************)
RECURSIVE Locs(_)
\* the places of the elements of a tree, each the child indices leading to it
Locs(e) ==
    { <<>> } \cup
    UNION { { <<i>> \o l : l \in Locs(e.child[i]) } :
              i \in { j \in 1..Len(e.child) : e.child[j].t = "element" } }

IsBelow(l, top) == Len(l) > Len(top) /\ SubSeq(l, 1, Len(top)) = top

\* document order: l1 starts before l2
RECURSIVE Before(_, _)
Before(l1, l2) ==
    IF l1 = <<>> THEN l2 /= <<>>
    ELSE IF l2 = <<>> THEN FALSE
    ELSE IF Head(l1) /= Head(l2) THEN Head(l1) < Head(l2)
    ELSE Before(Tail(l1), Tail(l2))

\* the default namespaces an element declares
Decls(e) == { e.attr[i].value : i \in { j \in 1..Len(e.attr) :
                                          e.attr[j].space = "" /\ e.attr[j].key = "xmlns" } }
PrefixDecls(e) == { <<e.attr[i].key, e.attr[i].value>> :
                      i \in { j \in 1..Len(e.attr) : e.attr[j].space = "xmlns" } }

FirstPassDone == pc \in {"again", "done"} /\ Len(canonical) >= 1 /\ canonical[1] /= Nil
DocIn == Document(ReadFrom(input.bytes))
DocOut == Document(ReadFrom(canonical[1]))
\* the path followed by tag from the Document's element
Addressed ==
    { l \in Locs(DocIn) :
        /\ Len(l) = Len(input.path)
        /\ \A k \in 1..Len(l) : ElemAt(DocIn, SubSeq(l, 1, k)).tag = input.path[k] }
StartLoc == CHOOSE l \in Addressed : \A m \in Addressed : m = l \/ Before(l, m)
\* the elements canonicalize works on: those below the addressed element
Processed == { l \in Locs(DocIn) : IsBelow(l, StartLoc) }
GeneratedPrefixes == { "ns" \o ToString(n) : n \in 1..Cardinality(Locs(DocIn)) }
\* the first processed element, in document order, that declares u
MintedAt(u) ==
    CHOOSE l \in Processed :
        /\ u \in Decls(ElemAt(DocIn, l))
        /\ \A m \in Processed : u \in Decls(ElemAt(DocIn, m)) => (m = l \/ Before(l, m))
\* d is below l and no element from below l down to d declares a default namespace
InheritsFrom(d, l) ==
    /\ IsBelow(d, l)
    /\ \A k \in (Len(l) + 1)..Len(d) : Decls(ElemAt(DocIn, SubSeq(d, 1, k))) = {}

\* C13: in the output of canonicalize, each processed element that declared a
\* default namespace U other than the envelope namespace carries a generated
\* prefix nsN, the first element that declared U carries xmlns:nsN=U, the
\* element's default declaration is gone, and each descendant reached without
\* passing a declaration carries the same prefix.
C13_DefaultNamespaceBecomesPrefix ==
    FirstPassDone =>
        \A l \in Processed : \A u \in Decls(ElemAt(DocIn, l)) \ {soapEnvNS} :
            LET out == ElemAt(DocOut, l) IN
            /\ out.space \in GeneratedPrefixes
            /\ out.tag = ElemAt(DocIn, l).tag
            /\ <<out.space, u>> \in PrefixDecls(ElemAt(DocOut, MintedAt(u)))
            /\ Decls(out) = {}
            /\ \A d \in Processed : InheritsFrom(d, l) => ElemAt(DocOut, d).space = out.space

\* the request declared a namespace below the addressed Body and came out
\* with the prefix ns1, its child with it
C13_Witness ==
    /\ FirstPassDone
    /\ input.path = <<"Envelope", "Body">>
    /\ requestNS \in Decls(ElemAt(DocIn, <<1, 2, 1>>))
    /\ ElemAt(DocOut, <<1, 2, 1>>).space = "ns1"
    /\ ElemAt(DocOut, <<1, 2, 1, 1>>).space = "ns1"

\* C14: no generated prefix is bound to the envelope namespace, and each
\* processed element that declares the envelope namespace as its default
\* namespace comes out with that declaration and with its name and prefix
\* unchanged, whatever the path.
C14_EnvelopeNamespaceLeftAsIs ==
    FirstPassDone =>
        /\ \A l \in Locs(DocOut) : \A d \in PrefixDecls(ElemAt(DocOut, l)) :
              d[1] \in GeneratedPrefixes => d[2] /= soapEnvNS
        /\ \A l \in Processed :
              soapEnvNS \in Decls(ElemAt(DocIn, l)) =>
                  /\ soapEnvNS \in Decls(ElemAt(DocOut, l))
                  /\ ElemAt(DocOut, l).space = ElemAt(DocIn, l).space
                  /\ ElemAt(DocOut, l).tag = ElemAt(DocIn, l).tag

\* C15: canonicalize applied to its own output with the same path gives that
\* output again.
C15_SecondPassKeepsPrefixes ==
    (pc = "done" /\ Len(canonical) = 2 /\ err = NoErr) => canonical[2] = canonical[1]

\* C16: on a document that parses, canonicalize returns
\* errInvalidCanonicalizationPath, and no bytes, exactly when the path
\* addresses no element; the empty path addresses the document root, so it
\* gives no error and a root that declared a namespace comes out rewritten.
C16_InvalidPathOnlyWhenNothingAddressed ==
    (Len(canonical) = 1 /\ input.bytes /= Malformed) =>
        /\ (err = errInvalidCanonicalizationPath) <=> (Addressed = {})
        /\ err = errInvalidCanonicalizationPath => canonical[1] = Nil
        /\ input.path = <<>> =>
             /\ err = NoErr
             /\ \A u \in Decls(DocIn.child[1]) \ {soapEnvNS} :
                   /\ ElemAt(DocOut, <<1>>).space = "ns1"
                   /\ <<"ns1", u>> \in PrefixDecls(ElemAt(DocOut, <<1>>))

\* a path that leads to no element of a document that parses was refused
C16_Witness ==
    /\ pc = "done" /\ Len(canonical) = 1
    /\ input.bytes /= Malformed
    /\ input.path = <<"Envelope", "asdf">>
    /\ err = errInvalidCanonicalizationPath
    /\ canonical[1] = Nil

(***************************************************************************)
(* WS-Security signing (wsse.go, Envelope.signWithWSSEInfo) and            *)
(* Request.serialize.  SHA-1 is taken to be free of collisions: a digest   *)
(* is its input in a wrapper.                                              *)
(***************************************************************************)
xsdNS == "http://www.w3.org/2001/XMLSchema"
xsiNS == "http://www.w3.org/2001/XMLSchema-instance"
wsseNS == "http://docs.oasis-open.org/wss/2004/01/oasis-200401-wss-wssecurity-secext-1.0.xsd"
wsuNS == "http://docs.oasis-open.org/wss/2004/01/oasis-200401-wss-wssecurity-utility-1.0.xsd"
dsigNS == "http://www.w3.org/2000/09/xmldsig#"
encTypeBinary == "http://docs.oasis-open.org/wss/2004/01/oasis-200401-wss-soap-message-security-1.0#Base64Binary"
valTypeX509Token == "http://docs.oasis-open.org/wss/2004/01/oasis-200401-wss-x509-token-profile-1.0#X509v3"
canonicalizationExclusiveC14N == "http://www.w3.org/2001/10/xml-exc-c14n#"
rsaSha1Sig == "http://www.w3.org/2000/09/xmldsig#rsa-sha1"
sha1Sig == "http://www.w3.org/2000/09/xmldsig#sha1"

ErrUnableToSignEmptyEnvelope == "unable to sign, envelope is empty"
ErrRand == "rand.Read error"
ErrSign == "rsa.SignPKCS1v15 error"

\* an Envelope as NewEnvelope makes it, on the side of the request: no
\* namespaces, no Header, a Body with the content and neither id nor Fault
RequestEnvelope(content) ==
    [XMLNSXsd |-> "", XMLNSXsi |-> "", Header |-> Nil,
     Body |-> [XMLNSWsu |-> "", ID |-> <<>>, Fault |-> Nil, Content |-> content]]

\* a []interface{} holding items
Interfaces(items) == Slice("interface", Len(items), items)

\* an AddHeaders that puts the new slice before the headers added earlier
AddHeaders_Prepend(e, elems) ==
    LET old == IF e.Header = Nil THEN <<>> ELSE e.Header.Headers.items
    IN [e EXCEPT !.Header = [Headers |-> Interfaces(<<Interfaces(elems)>> \o old)]]

\* Envelope.AddHeaders(elems...): the slice of the arguments is appended as one
\* element of Header.Headers
AddHeaders(e, elems) ==
    LET old == IF e.Header = Nil THEN <<>> ELSE e.Header.Headers.items
    IN [e EXCEPT !.Header = [Headers |-> Interfaces(Append(old, Interfaces(elems)))]]

\* generateWSSEAuthIDs with the two tokens generateToken gave
generateWSSEAuthIDs(securityTokenHex, bodyTokenHex) ==
    [securityTokenID |-> <<"SecurityToken-", securityTokenHex>>,
     bodyID |-> <<"Body-", bodyTokenHex>>]

Digest(bytes) == [sha1 |-> bytes]

\* a SignedInfo whose Reference points at the security token
signedInfoOf_TokenReference(ids, digest) ==
    [XMLNS |-> dsigNS,
     CanonicalizationMethod |-> canonicalizationExclusiveC14N,
     SignatureMethod |-> rsaSha1Sig,
     Reference |-> [URI |-> <<"#">> \o ids.securityTokenID,
                    Transform |-> canonicalizationExclusiveC14N,
                    DigestMethod |-> sha1Sig,
                    DigestValue |-> digest]]

\* lines 246-265 of sign: the SignedInfo with its one Reference
signedInfoOf(ids, digest) ==
    [XMLNS |-> dsigNS,
     CanonicalizationMethod |-> canonicalizationExclusiveC14N,
     SignatureMethod |-> rsaSha1Sig,
     Reference |-> [URI |-> <<"#">> \o ids.bodyID,
                    Transform |-> canonicalizationExclusiveC14N,
                    DigestMethod |-> sha1Sig,
                    DigestValue |-> digest]]

\* lines 286-309 of sign: the Security header
securityOf(ids, info, signatureValue) ==
    [k |-> "security", XMLNS |-> wsseNS,
     BinarySecurityToken |-> [XMLNS |-> wsuNS, WsuID |-> ids.securityTokenID,
                              EncodingType |-> encTypeBinary,
                              ValueType |-> valTypeX509Token, Value |-> "certDER"],
     Signature |->
        [XMLNS |-> dsigNS, SignedInfo |-> info, SignatureValue |-> signatureValue,
         KeyInfo |-> [SecurityTokenReference |->
                        [XMLNS |-> wsuNS,
                         Reference |-> [ValueType |-> valTypeX509Token,
                                        URI |-> <<"#">> \o ids.securityTokenID]]]]]

\* xml.Marshal of a Body: the envelope namespace as default namespace, then
\* xmlns:wsu and wsu:Id where they are not empty, then the content
MarshalBody(b) ==
    Element("", "Body",
            <<Attr("", "xmlns", soapEnvNS)>>
              \o (IF b.XMLNSWsu = "" THEN <<>> ELSE <<Attr("xmlns", "wsu", b.XMLNSWsu)>>)
              \o (IF b.ID = <<>> THEN <<>> ELSE <<Attr("wsu", "Id", b.ID)>>),
            IF b.Content = Nil THEN <<>>
            ELSE <<MarshalStruct(b.Content.elem, "Content", <<",", "omitempty">>)>>,
            NoDec)

\* lines 241-311 of sign: the digest of the canonical body c, the SignedInfo,
\* its signature and the Security header; signOk tells whether
\* rsa.SignPKCS1v15 succeeds
signCanonical(c, ids, signOk) ==
    IF c.err /= NoErr THEN [header |-> Nil, err |-> c.err, canon |-> <<c.out>>]
    ELSE IF ~signOk THEN [header |-> Nil, err |-> ErrSign, canon |-> <<c.out>>]
    ELSE [header |-> securityOf(ids, signedInfoOf(ids, Digest(c.out)),
                                [signed |-> Digest(signedInfoOf(ids, Digest(c.out)))]),
          err |-> NoErr, canon |-> <<c.out>>]

\* WSSEAuthInfo.sign(body, ids): the header, the error, and the canonical body
\* that was digested
sign(b, ids, signOk) ==
    signCanonical(canonicalize(WriteTo(MarshalBody([b EXCEPT !.ID = ids.bodyID])),
                               <<"Body">>),
                  ids, signOk)

\* e.Body.ID = ids.bodyID left out
setBodyID_Skip(e, id) == e

\* signWithWSSEInfo, line 86
setBodyID(e, id) == [e EXCEPT !.Body.ID = id]

\* signWithWSSEInfo, lines 80-88: r is what sign returned
addSecurity(e, r, ids) ==
    IF r.err /= NoErr THEN [e |-> e, err |-> r.err, canon |-> r.canon]
    ELSE [e |-> setBodyID(AddHeaders(e, <<r.header>>), ids.bodyID),
          err |-> NoErr, canon |-> r.canon]

\* signWithWSSEInfo, line 73
setWsu(e) == [e EXCEPT !.Body.XMLNSWsu = wsuNS]

\* signWithWSSEInfo, lines 66-67
setSchemas(e) == [e EXCEPT !.XMLNSXsd = xsdNS, !.XMLNSXsi = xsiNS]

\* Envelope.signWithWSSEInfo(info); ids is what generateWSSEAuthIDs returned,
\* Nil when it returned an error
signWithWSSEInfo(e, ids, signOk) ==
    IF e.Body.Content = Nil
      THEN [e |-> setSchemas(e), err |-> ErrUnableToSignEmptyEnvelope, canon |-> <<>>]
    ELSE IF ids = Nil
      THEN [e |-> setWsu(setSchemas(e)), err |-> ErrRand, canon |-> <<>>]
    ELSE addSecurity(setWsu(setSchemas(e)),
                     sign(setWsu(setSchemas(e)).Body, ids, signOk), ids)

\* xml.Marshal of the Security header
MarshalSecurity(sec) ==
    LET info == sec.Signature.SignedInfo
        Algorithm(tag, a) == Element("", tag, <<Attr("", "Algorithm", a)>>, <<>>, NoDec)
    IN
    Element("wsse", "Security", <<Attr("xmlns", "wsse", sec.XMLNS)>>,
      << Element("wsse", "BinarySecurityToken",
                 << Attr("xmlns", "wsu", sec.BinarySecurityToken.XMLNS),
                    Attr("wsu", "Id", sec.BinarySecurityToken.WsuID),
                    Attr("", "EncodingType", sec.BinarySecurityToken.EncodingType),
                    Attr("", "ValueType", sec.BinarySecurityToken.ValueType) >>,
                 <<TextData(<<sec.BinarySecurityToken.Value>>)>>, NoDec),
         Element("", "Signature", <<Attr("", "xmlns", sec.Signature.XMLNS)>>,
           << Element("", "SignedInfo", <<Attr("", "xmlns", info.XMLNS)>>,
                << Algorithm("CanonicalizationMethod", info.CanonicalizationMethod),
                   Algorithm("SignatureMethod", info.SignatureMethod),
                   Element("", "Reference", <<Attr("", "URI", info.Reference.URI)>>,
                     << Element("", "Transforms", <<>>,
                                <<Algorithm("Transform", info.Reference.Transform)>>, NoDec),
                        Algorithm("DigestMethod", info.Reference.DigestMethod),
                        Element("", "DigestValue", <<>>,
                                <<TextData(<<info.Reference.DigestValue>>)>>, NoDec) >>,
                     NoDec) >>, NoDec),
              Element("", "SignatureValue", <<>>,
                      <<TextData(<<sec.Signature.SignatureValue>>)>>, NoDec),
              Element("", "KeyInfo", <<>>,
                << Element("wsse", "SecurityTokenReference",
                     <<Attr("xmlns", "wsu", sec.Signature.KeyInfo.SecurityTokenReference.XMLNS)>>,
                     << Element("wsse", "Reference",
                          << Attr("", "ValueType",
                                  sec.Signature.KeyInfo.SecurityTokenReference.Reference.ValueType),
                             Attr("", "URI",
                                  sec.Signature.KeyInfo.SecurityTokenReference.Reference.URI) >>,
                          <<>>, NoDec) >>, NoDec) >>, NoDec) >>, NoDec) >>,
      NoDec)

RECURSIVE MarshalHeaders(_)
\* the elements of a []interface{}, slices inside it written out in place
MarshalHeaders(items) ==
    IF items = <<>> THEN <<>>
    ELSE LET h == Head(items)
             first == IF h.k = "slice" THEN MarshalHeaders(h.items)
                      ELSE IF h.k = "security" THEN <<MarshalSecurity(h)>>
                      ELSE <<MarshalStruct(h, "Headers", <<",", "omitempty">>)>>
         IN first \o MarshalHeaders(Tail(items))

\* xml.Marshal of the request's Envelope
MarshalRequestEnvelope(e) ==
    Element("", "Envelope",
            <<Attr("", "xmlns", soapEnvNS)>>
              \o (IF e.XMLNSXsd = "" THEN <<>> ELSE <<Attr("xmlns", "xsd", e.XMLNSXsd)>>)
              \o (IF e.XMLNSXsi = "" THEN <<>> ELSE <<Attr("xmlns", "xsi", e.XMLNSXsi)>>),
            (IF e.Header = Nil THEN <<>>
             ELSE <<Element("", "Header", <<Attr("", "xmlns", soapEnvNS)>>,
                            MarshalHeaders(e.Header.Headers.items), NoDec)>>)
              \o <<MarshalBody(e.Body)>>,
            NoDec)

\* envelope_test.go: headerExample
HeaderExample(n, text) ==
    Struct("headerExample",
           <<NameField(<<"HeaderExample">>, "", ""),
             Field("Attr1", <<"attr1", ",", "attr">>, FALSE, TRUE, IntV(n)),
             Field("Value", <<",", "chardata">>, FALSE, TRUE, Str(text))>>)

TokenHexes == { "0a", "1b" }
RequestHeaders ==
    { <<>>, <<HeaderExample(15, "test header value")>>,
      <<HeaderExample(15, "test header value"), HeaderExample(16, "")>>,
      <<HeaderExample(16, ""), HeaderExample(15, "test header value")>> }

InitSign ==
    /\ input \in { [content |-> c, headers |-> h, wsse |-> w] :
                     c \in { Ptr(x) : x \in RoundTripContents } \cup { Nil },
                     h \in RequestHeaders, w \in BOOLEAN }
    /\ pc = "serialize"
    /\ AuxInit
    /\ err = NoErr
    /\ body = BodyOf(Nil, Nil)
    /\ target = "none"
    /\ tokens = <<>>
    /\ parts = <<>>
    /\ parsedXOPHeader = FALSE
    /\ partNumber = 0
    /\ includes = NoIncludes
    /\ bodiesRead = {}
    /\ xopDecoded = {}

\* serialize, lines 56-60: the envelope of the request with its headers
NewRequestEnvelope ==
    IF input.headers = <<>> THEN RequestEnvelope(input.content)
    ELSE AddHeaders(RequestEnvelope(input.content), <<Interfaces(input.headers)>>)

\* serialize with wsseInfo set, lines 65-68: the envelope is signed
SerializeSign ==
    /\ pc = "serialize" /\ input.wsse
    /\ \E ids \in { generateWSSEAuthIDs(t1, t2) : t1 \in TokenHexes, t2 \in TokenHexes }
                  \cup { Nil },
          signOk \in BOOLEAN :
         \E r \in { signWithWSSEInfo(NewRequestEnvelope, ids, signOk) } :
         /\ envelope' = r.e
         /\ canonical' = r.canon
         /\ err' = r.err
         /\ pc' = IF r.err = NoErr THEN "marshal" ELSE "done"
    /\ UNCHANGED <<sent, input, decoderVars, respVars>>

\* serialize, lines 70-78: the signed envelope is marshalled and canonicalized
\* from Envelope/Body
SerializeCanonicalize ==
    /\ pc = "marshal"
    /\ \E r \in { canonicalize(WriteTo(MarshalRequestEnvelope(envelope)),
                                <<"Envelope", "Body">>) } :
          /\ canonical' = Append(canonical, r.out)
          /\ sent' = r.out
          /\ err' = r.err
    /\ pc' = "done"
    /\ UNCHANGED <<envelope, input, decoderVars, respVars>>

\* serialize without wsseInfo, lines 79-86
SerializePlain ==
    /\ pc = "serialize" /\ ~input.wsse
    /\ envelope' = NewRequestEnvelope
    /\ sent' = WriteTo(MarshalRequestEnvelope(NewRequestEnvelope))
    /\ pc' = "done"
    /\ UNCHANGED <<err, canonical, input, decoderVars, respVars>>

NextSign == SerializeSign \/ SerializeCanonicalize \/ SerializePlain

SpecSign == InitSign /\ [][NextSign]_vars

(***************************************************************************)
(* Signed requests: what was digested and what is sent.                    *)
(***************************************************************************)
\* the first child of the written element e that is named name
ChildNamed(e, name) ==
    e.child[CHOOSE i \in 1..Len(e.child) :
              /\ e.child[i].t = "element" /\ e.child[i].name = name
              /\ \A j \in 1..(i - 1) :
                   ~(e.child[j].t = "element" /\ e.child[j].name = name)]
\* a serialize with wsseInfo has ended without an error
SignedAndSent ==
    pc = "done" /\ input.wsse /\ err = NoErr /\ Len(canonical) = 2
SentBody == ChildNamed(sent, <<"Body">>)
\* the text of the DigestValue element of the bytes that are sent
SentDigestValue ==
    ChildNamed(ChildNamed(ChildNamed(ChildNamed(ChildNamed(ChildNamed(sent,
        <<"Header">>), <<"wsse", ":", "Security">>), <<"Signature">>),
        <<"SignedInfo">>), <<"Reference">>), <<"DigestValue">>).child[1].text

\* C17: for a signed request the Body subtree of the bytes serialize produces
\* is the canonical Body that sign digested, with the same generated prefixes,
\* the same attributes (wsu:Id among them) and the same content, and the
\* DigestValue that is sent is the digest of that Body
C17_SentBodyIsDigestedBody ==
    SignedAndSent =>
        /\ SentBody = canonical[1]
        /\ SentDigestValue = <<Digest(SentBody)>>

\* a signed request whose payload is in a namespace of its own, so that the
\* Body that is sent has a child under a generated prefix, and has its wsu:Id
C17_Witness ==
    /\ SignedAndSent
    /\ input.headers /= <<>>
    /\ \E i \in 1..Len(SentBody.child) :
         /\ SentBody.child[i].t = "element"
         /\ Len(SentBody.child[i].name) = 3
         /\ SentBody.child[i].name[1] = "ns1"
    /\ \E i \in 1..Len(SentBody.attr) :
         /\ SentBody.attr[i].name = <<"wsu", ":", "Id">>
         /\ SentBody.attr[i].value = envelope.Body.ID

\* the Security header signWithWSSEInfo added: the one element of the last
\* slice in Header.Headers
SecurityHeader ==
    envelope.Header.Headers.items[Len(envelope.Header.Headers.items)].items[1]

\* C18: after a successful signWithWSSEInfo the envelope has a Security header
\* whose SignedInfo Reference URI is "#" followed by Body.ID, whose KeyInfo
\* SecurityTokenReference URI is "#" followed by the wsu:Id of the
\* BinarySecurityToken, and the body id differs from the security-token id
C18_ReferencesNameBodyAndToken ==
    (pc \in { "marshal", "done" } /\ input.wsse /\ err = NoErr) =>
        /\ envelope.Header /= Nil
        /\ Len(envelope.Header.Headers.items) >= 1
        /\ SecurityHeader.k = "security"
        /\ SecurityHeader.Signature.SignedInfo.Reference.URI = <<"#">> \o envelope.Body.ID
        /\ SecurityHeader.Signature.KeyInfo.SecurityTokenReference.Reference.URI
             = <<"#">> \o SecurityHeader.BinarySecurityToken.WsuID
        /\ envelope.Body.ID /= <<>>
        /\ envelope.Body.ID /= SecurityHeader.BinarySecurityToken.WsuID

\* signWithWSSEInfo succeeded on an envelope that had headers, and the two
\* tokens generateToken returned were the same
C18_Witness ==
    /\ pc = "marshal" /\ input.wsse /\ err = NoErr
    /\ input.headers /= <<>>
    /\ envelope.Body.ID[2] = SecurityHeader.BinarySecurityToken.WsuID[2]

(***************************************************************************)
(* Response.deserialize (response.go): the media type of the Content-Type  *)
(* header chooses the decoder, and a Fault left in the envelope is copied  *)
(* to the Response.                                                        *)
(***************************************************************************)
ErrUnsupportedContentType == "unsupported content-type in response"
ErrNoMediaType == "mime: no media type"

\* what mime.ParseMediaType makes of the Content-Type header: "" where it
\* returns an error
MediaTypes == { "", "text/xml", "multipart/related", "application/json" }
\* strings.HasPrefix(mediaType, "multipart/")
IsMultipart(mediaType) == mediaType = "multipart/related"
\* strings.Contains(mediaType, "text/xml")
IsTextXML(mediaType) == mediaType = "text/xml"

\* a Response as newResponse makes it, with the message it carries
InitResponse ==
    /\ AuxInit
    /\ \E m \in MediaTypes :
         \/ /\ IsTextXML(m)
            /\ \E c \in ContentDestinations, d \in DetailDestinations, t \in BodyDocuments :
                 input = [mediaType |-> m, body |-> NewEnvelopeWithFault(c, d),
                          tokens |-> t, parts |-> <<>>, path |-> <<>>]
         \/ /\ IsMultipart(m)
            /\ \E ps \in Messages :
                 input = [mediaType |-> m,
                          body |-> NewEnvelopeWithFault(Ptr(RunTimeSeriesReportResponseZero), Nil),
                          tokens |-> <<>>, parts |-> ps, path |-> <<>>]
         \/ /\ ~IsTextXML(m) /\ ~IsMultipart(m)
            /\ \E c \in ContentDestinations :
                 input = [mediaType |-> m, body |-> NewEnvelopeWithFault(c, Nil),
                          tokens |-> <<>>, parts |-> <<>>, path |-> <<>>]
    /\ body = input.body
    /\ tokens = input.tokens
    /\ parts = input.parts
    /\ pc = "deserialize"
    /\ err = NoErr
    /\ target = "none"
    /\ parsedXOPHeader = FALSE
    /\ partNumber = 0
    /\ includes = NoIncludes
    /\ bodiesRead = {}
    /\ xopDecoded = {}

\* deserialize, lines 38-53: the media type is parsed and the decoder chosen
DeserializeEnter ==
    /\ pc = "deserialize"
    /\ IF input.mediaType = "" THEN pc' = "returned" /\ err' = ErrNoMediaType
       ELSE IF IsMultipart(input.mediaType) THEN pc' = "parts" /\ UNCHANGED err
       ELSE IF IsTextXML(input.mediaType) THEN pc' = "body" /\ UNCHANGED err
       ELSE pc' = "returned" /\ err' = ErrUnsupportedContentType
    /\ UNCHANGED <<body, tokens, target, input, auxVars, xopVars>>

\* deserialize, lines 55-64: the decoder has returned; its error is returned,
\* and without an error a Fault of the envelope becomes the Response's
DeserializeReturn ==
    /\ pc = "done"
    /\ pc' = "returned"
    /\ respFault' = IF err = NoErr /\ body.Fault /= Nil THEN body.Fault ELSE respFault
    /\ UNCHANGED <<body, tokens, err, target, input, canonical, signVars, pipeWriter, xopVars>>

NextResponse == DeserializeEnter \/ NextEnvelope \/ NextXop \/ DeserializeReturn

SpecResponse == InitResponse /\ [][NextResponse]_vars

\* the root element of an XOP part has a Body with a Fault element of the
\* envelope namespace
HasFaultElement(root) ==
    \E i \in 1..Len(root.child) :
        /\ root.child[i].t = "element" /\ root.child[i].tag = "Body"
        /\ \E j \in 1..Len(root.child[i].child) :
             LET f == root.child[i].child[j] IN
             /\ f.t = "element" /\ f.tag = "Fault"
             /\ NamespaceURI(f.space, <<root.attr, root.child[i].attr, f.attr>>) = soapEnvNS
\* the Body of the response held a Fault element: among the tokens of a
\* text/xml Body, or in an XOP part that was decoded into the envelope
BodyContainedFault ==
    \/ \E i \in 1..Len(input.tokens) : IsFaultStart(input.tokens[i])
    \/ \E i \in xopDecoded : HasFaultElement(input.parts[i].root)

\* C19: after a deserialize that returned nil, Fault() is non-nil exactly
\* when the Body of the response held a SOAP Fault element
C19_FaultIffFaultElement ==
    (pc = "returned" /\ err = NoErr) => ((respFault /= Nil) <=> BodyContainedFault)

(***************************************************************************)
(* The pipe of xopDecoder.decode (xop.go, lines 285-296): a goroutine      *)
(* writes the document to the pipe and closes it, decode reads the         *)
(* envelope from the other end.  The pipe has no buffer: what the writer   *)
(* offers is taken by a read of the decoder or not at all.  tokens is what *)
(* the writer still has to write.                                          *)
(***************************************************************************)
EnvelopeStart == StartElement(soapEnvNS, "Envelope", TRUE, Nil, <<>>)
BodyStart == StartElement(soapEnvNS, "Body", TRUE, Nil, <<>>)
\* a comment after the end of the root element, which etree keeps as a child
\* of the Document and writes back
Comment == [t |-> "comment"]

\* what doc.WriteTo writes: the Envelope, its Body with its children, and
\* what follows the root element in the part
PipeDocuments ==
    { <<EnvelopeStart, BodyStart>> \o q \o <<EndElement, EndElement>> \o trailing :
        q \in SeqsUpTo(BodyChildren, MaxChildren), trailing \in { <<>>, <<Comment>> } }

InitPipe ==
    /\ canonical = <<>> /\ envelope = Nil /\ sent = Nil /\ respFault = Nil
    /\ pipeWriter = "writing"
    /\ body \in Envelopes
    /\ tokens \in PipeDocuments
    /\ pc = "root"
    /\ err = NoErr
    /\ target = "none"
    /\ parts = <<>>
    /\ parsedXOPHeader = TRUE
    /\ partNumber = 1
    /\ includes = NoIncludes
    /\ bodiesRead = {}
    /\ xopDecoded = {}
    /\ input = [body |-> body, tokens |-> tokens, parts |-> <<>>, path |-> <<>>]

\* the decoder is reading and the writer has something to hand over
CanRead == pc \in { "root", "envelope", "tokens" } /\ pipeWriter = "writing" /\ tokens /= <<>>

\* Decode reads the start of the root element
PipeDecodeRoot ==
    /\ CanRead /\ pc = "root"
    /\ tokens' = Tail(tokens)
    /\ IF Head(tokens).t = "start" /\ Head(tokens).space = soapEnvNS
          /\ Head(tokens).local = "Envelope"
         THEN pc' = "envelope" /\ UNCHANGED err
       ELSE Return("xml.UnmarshalError")
    /\ UNCHANGED <<body, target, input, auxVars, xopVars>>

\* Decode reads a child of the Envelope or its end: a Body goes to
\* Body.UnmarshalXML, the end of the Envelope ends Decode
PipeDecodeEnvelope ==
    /\ CanRead /\ pc = "envelope"
    /\ tokens' = Tail(tokens)
    /\ IF Head(tokens).t = "start"
         THEN LET e == BodyEnter(body) IN
              /\ body' = e.b
              /\ err' = e.err
              /\ pc' = IF e.done THEN "done" ELSE "tokens"
       ELSE IF Head(tokens).t = "end"
         THEN Return(NoErr) /\ UNCHANGED body
       ELSE UNCHANGED <<pc, err, body>>
    /\ UNCHANGED <<target, input, auxVars, xopVars>>

\* one iteration of the loop of Body.UnmarshalXML on what the pipe delivers
PipeDecodeBody ==
    /\ CanRead /\ pc = "tokens"
    /\ \E nilOut \in NilPointerOutcomes :
         LET r == BodyToken(body, Head(tokens), nilOut) IN
         /\ body' = r.b
         /\ err' = r.err
         /\ target' = IF r.target = "none" THEN target ELSE r.target
         /\ pc' = IF ~r.done THEN "tokens"
                  ELSE IF r.err = NoErr THEN "envelope" ELSE "done"
    /\ tokens' = Tail(tokens)
    /\ UNCHANGED <<input, auxVars, xopVars>>

\* a decoder that takes the end of the stream for the end of the document
PipeDecodeEOF_Nil ==
    /\ pc \in { "root", "envelope", "tokens" }
    /\ pipeWriter \in { "failed", "closed" }
    /\ Return(NoErr)
    /\ UNCHANGED <<body, tokens, target, input, canonical, signVars, respFault, pipeWriter, xopVars>>

\* the pipe was closed before the end of the root element: the read gives
\* io.EOF, which the decoder returns, as a syntax error inside an element
PipeDecodeEOF ==
    /\ pc \in { "root", "envelope", "tokens" }
    /\ pipeWriter \in { "failed", "closed" }
    /\ Return(IF pc = "root" THEN "EOF" ELSE SyntaxError)
    /\ UNCHANGED <<body, tokens, target, input, canonical, signVars, respFault, pipeWriter, xopVars>>

\* line 289: doc.WriteTo returns an error before it has written everything;
\* the error is dropped and the deferred Close runs
ProducerFail ==
    /\ pipeWriter = "writing" /\ tokens /= <<>> /\ pc /= "done"
    /\ pipeWriter' = "failed"
    /\ UNCHANGED <<pc, err, body, tokens, target, input, canonical, signVars, respFault, xopVars>>

\* lines 289-290: doc.WriteTo has written everything and the pipe is closed
ProducerClose ==
    /\ pipeWriter = "writing" /\ tokens = <<>>
    /\ pipeWriter' = "closed"
    /\ UNCHANGED <<pc, err, body, tokens, target, input, canonical, signVars, respFault, xopVars>>

NextPipe ==
    \/ PipeDecodeRoot \/ PipeDecodeEnvelope \/ PipeDecodeBody \/ PipeDecodeEOF
    \/ ProducerFail \/ ProducerClose

SpecPipe == InitPipe /\ [][NextPipe]_vars

EnvelopeEndUnwritten == \E i \in 1..Len(tokens) : tokens[i].t = "end"

Serialized == pc = "done" /\ err = NoErr /\ sent /= Nil
\* the names of the element children of the Envelope that is sent
SentChildNames == [i \in 1..Len(sent.child) |-> sent.child[i].name]
SentHeader == ChildNamed(sent, <<"Header">>)

\* C21: the headers of a request are written inside one Header element
\* before Body, in the order in which they were added; no Header element is
\* written when there is none; in a signed request the Security header
\* comes after every header added with AddHeader
C21_HeadersInOrderBeforeBody ==
    Serialized =>
        IF input.headers = <<>> /\ ~input.wsse
          THEN SentChildNames = << <<"Body">> >>
        ELSE /\ SentChildNames = << <<"Header">>, <<"Body">> >>
             /\ Len(SentHeader.child) = Len(input.headers) + (IF input.wsse THEN 1 ELSE 0)
             /\ \A i \in 1..Len(input.headers) :
                  SentHeader.child[i]
                    = WriteTo(MarshalStruct(input.headers[i], "Headers", <<",", "omitempty">>))
             /\ input.wsse =>
                  SentHeader.child[Len(SentHeader.child)].name = <<"wsse", ":", "Security">>

\* a signed request with two different headers has been serialized
C21_Witness ==
    /\ Serialized /\ input.wsse
    /\ Len(input.headers) = 2
    /\ SentHeader.child[1] /= SentHeader.child[2]
    /\ Len(SentHeader.child) = 3

(***************************************************************************)
(* A Fault without a detail element.                                       *)
(***************************************************************************)
\* the Body held one Fault element with faultcode, faultstring and
\* faultactor and no detail, and the decode returned nil
FaultWithoutDetailDecoded ==
    /\ pc = "done" /\ err = NoErr
    /\ input.tokens = <<StartElement(soapEnvNS, "Fault", TRUE, Nil, FaultText), EndElement>>

\* C22: a decoded Fault with faultcode, faultstring and faultactor and no
\* detail element has Error() "soap fault: <faultcode> (<faultstring>)" and
\* Detail() nil, whether it was made by NewFault or by NewFaultWithDetail
C22_FaultWithoutDetail ==
    FaultWithoutDetailDecoded =>
        /\ body.Fault /= Nil
        /\ Error(body.Fault) = <<"soap fault: ", "FaultCodeValue", " (", "FaultStringValue", ")">>
        /\ Detail(body.Fault) = Nil

(***************************************************************************)
(* An XOP part without an Include.                                         *)
(***************************************************************************)
RECURSIVE HasIncludeElement(_)
\* the element e has an element named Include below it, in whatever namespace
HasIncludeElement(e) ==
    \E i \in 1..Len(e.child) :
        /\ e.child[i].t = "element"
        /\ (e.child[i].tag = "Include" \/ HasIncludeElement(e.child[i]))

\* C23: once an xop+xml part that holds no Include element has been decoded,
\* decode has returned and that part is the last one fetched from the reader
C23_NoIncludeEndsDecode ==
    \A i \in xopDecoded :
        ~HasIncludeElement(input.parts[i].root) => (pc = "done" /\ Len(Fetched) = i)

(***************************************************************************)
(* Embedded fields in the include path resolver.                           *)
(***************************************************************************)
\* the resolver has run on the destination with the embedded field, with a
\* path that passes the check of the root and then names seg
ResolvedEmbedded(seg) ==
    /\ pc = "done"
    /\ body.Content = Ptr(EmbeddedV)
    /\ input.path = <<"Body", "", seg>>
\* where the fields are in the destination
EmbeddedMember(j) == <<[t |-> "elem"], [t |-> "field", i |-> 1], [t |-> "field", i |-> j]>>
DirectField(j) == <<[t |-> "elem"], [t |-> "field", i |-> j]>>

Lookups == canonicalize(input.bytes, input.path).ns.hist
Injective(f) == \A u, v \in DOMAIN f : f[u] = f[v] => u = v
\* the distinct URIs among the first k lookups
UrisMet(k) == { Lookups[j].uri : j \in 1..k }

\* C25: during one call of canonicalize nsMap is injective and only grows:
\* the k-th distinct URI met gets the prefix ns<k>, a URI in the map reuses
\* its prefix, and nsIdx is the size of the map plus one
C25_NamespaceMapInjectiveAndGrowing ==
    FirstPassDone =>
        \A k \in 1..Len(Lookups) :
            LET l == Lookups[k] IN
            /\ Injective(l.mapBefore) /\ Injective(l.mapAfter)
            /\ l.idxBefore = Cardinality(DOMAIN l.mapBefore) + 1
            /\ l.idxAfter = Cardinality(DOMAIN l.mapAfter) + 1
            /\ DOMAIN l.mapBefore \subseteq DOMAIN l.mapAfter
            /\ \A u \in DOMAIN l.mapBefore : l.mapAfter[u] = l.mapBefore[u]
            /\ l.mapBefore = (IF k = 1 THEN NewNamespaces.nsMap ELSE Lookups[k - 1].mapAfter)
            /\ DOMAIN l.mapAfter = UrisMet(k)
            /\ l.canonNs = l.mapAfter[l.uri]
            /\ l.uri \in DOMAIN l.mapBefore => l.mapAfter = l.mapBefore
            /\ l.uri \notin DOMAIN l.mapBefore =>
                   l.canonNs = "ns" \o ToString(Cardinality(UrisMet(k)))

\* a call that met two URIs and then the first of them again
C25_Witness ==
    /\ FirstPassDone
    /\ Len(Lookups) = 3
    /\ Lookups[1].canonNs = "ns1" /\ Lookups[2].canonNs = "ns2"
    /\ Lookups[3].uri = Lookups[1].uri /\ Lookups[3].canonNs = "ns1"
    /\ Lookups[3].idxAfter = 3

(***************************************************************************)
(* What canonicalize leaves alone.                                         *)
(***************************************************************************)
\* the elements outside the subtree below the addressed element: the
\* addressed element, its ancestors and the elements beside them
Unprocessed == { l \in Locs(DocIn) \ { <<>> } : l \notin Processed }
\* the tokens of an element that are not elements
OwnText(e) == SelectSeq(e.child, LAMBDA c : c.t /= "element")

\* C26: with a path that is not empty canonicalize changes only descendants
\* of the addressed element: the addressed element, its ancestors and the
\* elements outside its subtree keep their names, prefixes, attributes and
\* namespace declarations
C26_OnlyDescendantsChange ==
    (FirstPassDone /\ input.path /= <<>>) =>
        /\ Locs(DocOut) = Locs(DocIn)
        /\ \A l \in Unprocessed :
              /\ ElemAt(DocOut, l).space = ElemAt(DocIn, l).space
              /\ ElemAt(DocOut, l).tag = ElemAt(DocIn, l).tag
              /\ ElemAt(DocOut, l).attr = ElemAt(DocIn, l).attr
              /\ OwnText(ElemAt(DocOut, l)) = OwnText(ElemAt(DocIn, l))

\* the Body was addressed and declares a namespace of its own, as does the
\* Header beside it; the request below the Body was renamed, they were not
C26_Witness ==
    /\ FirstPassDone
    /\ input.path = <<"Envelope", "Body">>
    /\ Decls(ElemAt(DocIn, <<1, 2>>)) = {requestNS}
    /\ Decls(ElemAt(DocIn, <<1, 1>>)) = {requestNS}
    /\ ElemAt(DocOut, <<1, 2, 1>>).space = "ns1"
    /\ ElemAt(DocOut, <<1, 2>>) .space = ""
    /\ Decls(ElemAt(DocOut, <<1, 2>>)) = {requestNS}
    /\ ElemAt(DocOut, <<1, 1>>) = ElemAt(DocIn, <<1, 1>>)

(***************************************************************************)
(* The end of the producer of the pipe.                                    *)
(***************************************************************************)
\* the writer is inside a Write that nothing will take: decode has returned,
\* pipeReader is never closed (xop.go has no pipeReader.Close), and a Write
\* on a pipe returns only when it was read or the reader was closed
ProducerBlocked == pc = "done" /\ pipeWriter = "writing" /\ tokens /= <<>>

\* C27: the task that writes the xop tree into the pipe always terminates,
\* also when the decode of the envelope returns an error or stops before
\* the whole document was read: once decode has returned the producer is
\* not left blocked in its write
C27_ProducerNotLeftBlocked == ~ProducerBlocked

(***************************************************************************)
(* Faults of the path resolution inside decode.                            *)
(***************************************************************************)
\* decode has ended at a part whose Content-ID is a key of d.includes
EndedAtIncludedPart ==
    /\ pc = "done" /\ Fetched /= <<>>
    /\ Fetched[Len(Fetched)].kind = "part"
    /\ ~IsXop(Fetched[Len(Fetched)])
    /\ Fetched[Len(Fetched)].cid \in DOMAIN includes

\* C28: for every include map built from a decoded xop part and every later
\* part whose Content-ID matches, decode returns nil or an error value: the
\* path resolution does not fault, also when the body was decoded as a Fault
\* and Body.Content is nil
C28_ResolutionNeverFaults == EndedAtIncludedPart => err /= Panic

(***************************************************************************)
(* The declarations of the generated prefixes.                             *)
(***************************************************************************)
\* the prefix is declared on the element at l of the output or on one of
\* its ancestors
DeclaredInScope(prefix, l) ==
    \E k \in 1..Len(l) : \E d \in PrefixDecls(ElemAt(DocOut, SubSeq(l, 1, k))) : d[1] = prefix

\* C29: in the output of canonicalize each generated prefix nsN in an
\* element's name is declared by an attribute xmlns:nsN on that element or
\* on one of its ancestors, also when two sibling subtrees declare the same
\* default namespace
C29_GeneratedPrefixesDeclared ==
    FirstPassDone =>
        \A l \in Locs(DocOut) \ { <<>> } :
            ElemAt(DocOut, l).space \in GeneratedPrefixes =>
                DeclaredInScope(ElemAt(DocOut, l).space, l)

(***************************************************************************)
(* The resolver on a byte slice that holds bytes.                          *)
(***************************************************************************)
\* the resolver has run on the destination whose Data holds a byte, with a
\* path that passes the check of the root and names Data
ResolvedFilled ==
    /\ pc = "done"
    /\ body.Content = Ptr(FilledV)
    /\ input.path = <<"Body", "", "Data">>

====
